---- MODULE Spec2Model ----
(***************************************************************************)
(* Verification model of the market-data acquisition layer                 *)
(* (src/src/fetcher.py: BinanceFetcher), of the indicator engine           *)
(* (src/src/indicators.py), of the AB_W + volume scans                     *)
(* (src/src/scan_abw_volume.py, src/src/scan_abw_volume_history.py), of    *)
(* the scheduled jobs (src/src/scheduler.py) and of the Telegram sender    *)
(* (src/src/telegram_bot.py).                                              *)
(*                                                                         *)
(* The fetcher is modelled statement by statement: every attempt on a      *)
(* source stage (primary client, HTTP mirror, yfinance) is one step, the   *)
(* environment choosing what the stage answers.  Only one call runs at a   *)
(* time (the program is single-threaded), so a call that has started is    *)
(* always run to its return or raise before the next one starts.           *)
(***************************************************************************)
EXTENDS Integers, Sequences, FiniteSets, TLC

VARIABLES
    \* ---- BinanceFetcher instance and the call in progress ----
    mirror_urls,   \* self.mirror_urls, as the number n of its entries (mirror i = entry i)
    last_source,   \* self.last_source
    source_before, \* self.last_source as it was when the running / most recent call began
    pc,            \* position of the running call ("idle": no call is running)
    fn,            \* name of the running / most recent call
    symbol,        \* its symbol argument (a sequence of characters)
    mi,            \* loop variable of `for base in self.mirror_urls` (index of base)
    exc,           \* exception caught by the outer `except` of the call
    attempts,      \* log: the stages the call has attempted so far, with their answers
    ret,           \* how the most recent call ended: returned value / raised exception
    \* ---- get_klines_between locals ----
    start_ms, cursor, all_rows, end_ms, limit,
    requests,      \* log: the klines requests sent (startTime, endTime, limit)
    pages,         \* log: the pages received
    \* ---- _map_symbol_to_yf: argument and result ----
    yf_in, yf_out,
    \* ---- to_dataframe: argument and result ----
    raw, df,
    \* ---- ema: arguments and result ----
    series, period, ema_out,
    \* ---- rsi: arguments and result ----
    rsi_series, rsi_period, rsi_out,
    \* ---- weekly AB and its alignment to daily bars ----
    wdf,            \* the weekly table (rows in open-time order)
    w_known,        \* number of its leading candles that form the earlier table
    daily_index,    \* index of the daily table
    weekly_len,     \* Bollinger / ATR length
    ab_w_daily,     \* aligned series from the earlier table
    ab_w_daily_ext, \* aligned series from the whole table
    live_ab,        \* compute_weekly_ab of the whole table
    \* ---- find_signals_for_symbol: arguments, columns added to daily_df, result ----
    daily_df, hist_wdf, hist_weekly_len, vol_ma_len, vol_mult,
    hist_ab_w, hist_vol_ma, hits,
    \* ---- scan / scan_history ----
    scan_fn,        \* "scan" or "scan_history" ("none": not called)
    scan_pc,        \* "idle", "loop" (in the for loop), "done" (returned)
    symbols,        \* the list from list_top_usdt_symbols
    scan_args,      \* vol_ma_len, vol_mult, weekly_len
    sym_i,          \* index of the next symbol of the loop
    scan_log,       \* log: per processed symbol, what the exchange answered
    matches,        \* scan: the list `matches`
    all_hits,       \* scan_history: the list `all_hits`
    scan_ret,       \* the value returned
    \* ---- list_top_usdt_symbols: snapshot, top_n, which of the two versions, result ----
    tickers, top_n, top_fn, top_out,
    \* ---- compute_indicators / generate_signals: close prices, configuration, table, result ----
    sig_close, sig_toggles, sig_params, sig_pc, sig_df, sig_out,
    \* ---- historical scan of one symbol: days, vol_ma_len, the source's daily candles,
    \*      the table evaluated, its volume moving average, the result ----
    lb_days, lb_ma_len, lb_answer, lb_df, lb_vol_ma, lb_hits,
    \* ---- atr / compute_ab: table, length, multiplier, which were computed, results ----
    ab_table, ab_len, ab_mult, ab_done, atr_out, ab_out,
    \* ---- MarketReporter job: which job, position, configured symbols, toggles, custom
    \*      block enabled, loop index, what happened per symbol ----
    sch_fn, sch_pc, sch_symbols, sch_toggles, sch_enabled, sch_i, sch_log,
    tg_fn, tg_pc, tg_retries, tg_base_delay, tg_attempt, tg_log, tg_ret, tg_sent

fetcherVars == <<mirror_urls, last_source, source_before, pc, fn, symbol, mi, exc, attempts,
                 ret, start_ms, cursor, all_rows, end_ms, limit, requests, pages>>

mapVars == <<yf_in, yf_out>>
dfVars == <<raw, df>>
emaVars == <<series, period, ema_out>>
rsiVars == <<rsi_series, rsi_period, rsi_out>>
alignVars == <<wdf, w_known, daily_index, weekly_len, ab_w_daily, ab_w_daily_ext, live_ab>>
histVars == <<daily_df, hist_wdf, hist_weekly_len, vol_ma_len, vol_mult,
              hist_ab_w, hist_vol_ma, hits>>
scanVars == <<scan_fn, scan_pc, symbols, scan_args, sym_i, scan_log, matches, all_hits, scan_ret>>
topVars == <<tickers, top_n, top_fn, top_out>>
sigVars == <<sig_close, sig_toggles, sig_params, sig_pc, sig_df, sig_out>>
lbVars == <<lb_days, lb_ma_len, lb_answer, lb_df, lb_vol_ma, lb_hits>>
abVars == <<ab_table, ab_len, ab_mult, ab_done, atr_out, ab_out>>
schedVars == <<sch_fn, sch_pc, sch_symbols, sch_toggles, sch_enabled, sch_i, sch_log>>
tgVars == <<tg_fn, tg_pc, tg_retries, tg_base_delay, tg_attempt, tg_log, tg_ret, tg_sent>>

vars == <<fetcherVars, mapVars, dfVars, emaVars, rsiVars, alignVars, histVars, scanVars,
    topVars, sigVars, lbVars, abVars, schedVars, tgVars>>

-----------------------------------------------------------------------------
(* Bounds of the model *)

MaxMirrors == 4     \* mirror_urls holds 0 .. MaxMirrors entries
MaxTime == 3        \* millisecond timestamps range over 0 .. MaxTime
MaxLimit == 2       \* page-size cap (limit) ranges over 1 .. MaxLimit
MaxFrags == 3       \* a symbol is the concatenation of 0 .. MaxFrags fragments
MaxRows == 3        \* to_dataframe is given 0 .. MaxRows candle rows
MaxSeriesLen == 3   \* an indicator input series has 1 .. MaxSeriesLen entries
MaxVal == 2         \* its entries range over 0 .. MaxVal
MaxPeriod == 3      \* indicator periods range over 1 .. MaxPeriod
MaxWeeks == 3       \* a weekly table holds 0 .. MaxWeeks candles
DaysPerWeek == 2    \* daily bars per weekly candle
MaxAbLen == 2       \* Bollinger / ATR length ranges over 1 .. MaxAbLen
MaxDays == 3        \* a daily table holds 0 .. MaxDays bars
MaxVolume == 2      \* daily volumes range over 0 .. MaxVolume
MaxMaLen == 2       \* the volume moving-average length ranges over 1 .. MaxMaLen
MaxSymbols == 2     \* a scan covers 0 .. MaxSymbols symbols
MaxTickers == 3     \* a ticker snapshot holds 0 .. MaxTickers entries
MaxTop == 2         \* top_n ranges over 0 .. MaxTop
MaxLookback == 2    \* --days ranges over 1 .. MaxLookback
MaxRetries == 3     \* retries ranges over -1 .. MaxRetries
MaxBaseDelay == 2   \* base_delay ranges over 1 .. MaxBaseDelay seconds

-----------------------------------------------------------------------------
(* Strings as sequences of characters *)

USDT == <<"U", "S", "D", "T">>
LeveragedSuffixes == << <<"U", "P">>, <<"D", "O", "W", "N">>, <<"3", "L">>, <<"3", "S">> >>

\* str.endswith
EndsWith(s, suf) ==
    /\ Len(suf) <= Len(s)
    /\ SubSeq(s, Len(s) - Len(suf) + 1, Len(s)) = suf

NotMappable == <<"None">>

\* the loop `for suf in (...): if base.endswith(suf): return None`
RECURSIVE HasLeveragedSuffix(_, _)
HasLeveragedSuffix(base, k) ==
    IF k > Len(LeveragedSuffixes) THEN FALSE
    ELSE IF EndsWith(base, LeveragedSuffixes[k]) THEN TRUE
    ELSE HasLeveragedSuffix(base, k + 1)

\* substring test `suf in base`
Contains(s, sub) ==
    \E i \in 1..(Len(s) - Len(sub) + 1) : SubSeq(s, i, i + Len(sub) - 1) = sub

\* variant: the leveraged-token test of list_top_usdt_symbols (`x in sym`) used here
MapSymbolBySubstring(sym) ==
    IF ~EndsWith(sym, USDT) THEN NotMappable
    ELSE LET base == SubSeq(sym, 1, Len(sym) - 4)
         IN  IF \E k \in 1..Len(LeveragedSuffixes) : Contains(base, LeveragedSuffixes[k])
             THEN NotMappable
             ELSE base \o <<"-", "U", "S", "D">>

\* BinanceFetcher._map_symbol_to_yf
_map_symbol_to_yf(sym) ==
    IF ~EndsWith(sym, USDT) THEN NotMappable
    ELSE LET base == SubSeq(sym, 1, Len(sym) - 4)
         IN  IF HasLeveragedSuffix(base, 1) THEN NotMappable
             ELSE base \o <<"-", "U", "S", "D">>

-----------------------------------------------------------------------------
(* Values, exceptions and the attempt log *)

None == [stage |-> "none", idx |-> 0, rows |-> <<>>]
Data(stage, i) == [stage |-> stage, idx |-> i, rows |-> <<>>]
NoExc == [stage |-> "none", idx |-> 0]
Exc(stage, i) == [stage |-> stage, idx |-> i]

Att(stage, i, o) == [stage |-> stage, idx |-> i, out |-> o]

Running == [kind |-> "running", val |-> None, exc |-> NoExc]
Returned(v) == [kind |-> "returned", val |-> v, exc |-> NoExc]
Raised(e) == [kind |-> "raised", val |-> None, exc |-> e]

BTCUSDT == <<"B", "T", "C">> \o USDT

\* symbols get_klines is called with: a plain spot pair, a leveraged token, a non-USDT pair
FetchSymbols == { BTCUSDT,
                  <<"B", "T", "C", "U", "P">> \o USDT,
                  <<"E", "T", "H", "B", "T", "C">> }

DefaultArgs == <<>>

-----------------------------------------------------------------------------
(* What the environment may answer *)

\* self.client.*(...) either returns or raises
ClientOutcomes == {"ok", "raise"}
\* ticker_price may also return a payload from which float(data['price']) raises
PriceClientOutcomes == {"ok", "bad", "raise"}
\* requests_session.get: raises | status != 200 | 200 and a body that parses |
\* 200 and a body from which r.json() / float(...['price']) raises
MirrorOutcomes == {"ok", "bad200", "non200", "raise"}
\* for klines a 200 body may also be the JSON value null: r.json() is None
KlinesMirrorOutcomes == MirrorOutcomes \cup {"null200"}
\* import of yfinance fails | download raises | download is empty | download has rows
YfOutcomes == {"noimport", "raise", "empty", "ok"}

Row(o, c) == [open_time |-> o, close_time |-> c]

\* pages an exchange can answer to klines(startTime=c, endTime=e, limit=l): at most
\* l rows, open times strictly increasing within [c, e], close time >= open time
RowsIn(c, e) == { Row(o, cl) : o \in {t \in 0..MaxTime : c <= t /\ t <= e}, cl \in 0..MaxTime } \cap
                { r \in [open_time : 0..MaxTime, close_time : 0..MaxTime] : r.close_time >= r.open_time }
PagesFor(c, e, l) ==
    { p \in UNION { [1..k -> RowsIn(c, e)] : k \in 0..l } :
        \A i \in 1..(Len(p) - 1) : p[i].open_time < p[i + 1].open_time }

-----------------------------------------------------------------------------
(* Frame: the variables of the other components *)

FetcherFrame == UNCHANGED <<mapVars, dfVars, emaVars, rsiVars, alignVars, histVars, scanVars,
    topVars, sigVars, lbVars, abVars, schedVars, tgVars>>

\* entry of a call: fresh locals
Enter(f, s, p) ==
    /\ pc' = p /\ fn' = f /\ symbol' = s
    /\ mi' = 0 /\ exc' = NoExc /\ attempts' = <<>> /\ ret' = Running
    /\ start_ms' = 0 /\ cursor' = 0 /\ all_rows' = <<>> /\ end_ms' = 0 /\ limit' = 0
    /\ requests' = <<>> /\ pages' = <<>>
    /\ UNCHANGED <<mirror_urls, last_source>>
    /\ source_before' = last_source
    /\ FetcherFrame

BetweenLocals == <<start_ms, cursor, all_rows, end_ms, limit, requests, pages>>

\* variant: the exception raised most recently inside the handler is the one re-raised
RaiseMostRecent ==
    LET raised == { k \in 1..Len(attempts) : attempts[k].out \in {"raise", "bad", "bad200"} }
        last == CHOOSE k \in raised : \A j \in raised : j <= k
    IN  IF raised = {} THEN exc ELSE Exc(attempts[last].stage, attempts[last].idx)

\* the exception a bare `raise` re-raises at the end of the outer handler: the one
\* the outer `except` caught (inner handlers have completed and restored it)
BareRaise == exc

-----------------------------------------------------------------------------
(* BinanceFetcher.get_price *)

CallGetPrice ==
    /\ pc = "idle"
    /\ Enter("get_price", BTCUSDT, "price_primary")

PricePrimary(o) ==
    /\ pc = "price_primary"
    /\ attempts' = Append(attempts, Att("client", 0, o))
    /\ \/ /\ o = "ok"            \* ticker_price returned, float(...) succeeded
          /\ last_source' = "binance_client"
          /\ ret' = Returned(Data("client", 0))
          /\ pc' = "idle"
          /\ UNCHANGED <<exc, mi>>
       \/ /\ o = "bad"           \* ticker_price returned, float(data['price']) raised
          /\ last_source' = "binance_client"
          /\ exc' = Exc("client", 0)
          /\ mi' = 1
          /\ pc' = "price_mirror"
          /\ UNCHANGED ret
       \/ /\ o = "raise"         \* ticker_price raised
          /\ exc' = Exc("client", 0)
          /\ mi' = 1
          /\ pc' = "price_mirror"
          /\ UNCHANGED <<last_source, ret>>
    /\ UNCHANGED <<mirror_urls, source_before, fn, symbol, BetweenLocals>>
    /\ FetcherFrame

PriceMirror(o) ==
    /\ pc = "price_mirror"
    /\ mi <= mirror_urls
    /\ attempts' = Append(attempts, Att("mirror", mi, o))
    /\ \/ /\ o = "ok"
          /\ last_source' = "binance_http"
          /\ ret' = Returned(Data("mirror", mi))
          /\ pc' = "idle"
          /\ UNCHANGED mi
       \/ /\ o = "bad200"        \* status 200, then float(r.json()['price']) raised
          /\ last_source' = "binance_http"
          /\ mi' = mi + 1
          /\ UNCHANGED <<ret, pc>>
       \/ /\ o \in {"non200", "raise"}
          /\ mi' = mi + 1
          /\ UNCHANGED <<last_source, ret, pc>>
    /\ UNCHANGED <<mirror_urls, source_before, fn, symbol, exc, BetweenLocals>>
    /\ FetcherFrame

PriceExhausted ==
    /\ pc = "price_mirror"
    /\ mi > mirror_urls
    /\ ret' = Raised(BareRaise)
    /\ pc' = "idle"
    /\ UNCHANGED <<mirror_urls, source_before, last_source, fn, symbol, mi, exc, attempts, BetweenLocals>>
    /\ FetcherFrame

-----------------------------------------------------------------------------
(* BinanceFetcher.get_klines, _try_http_klines, _try_yfinance_klines *)

CallGetKlines(s) ==
    /\ pc = "idle"
    /\ Enter("get_klines", s, "klines_primary")

KlinesPrimary(o) ==
    /\ pc = "klines_primary"
    /\ attempts' = Append(attempts, Att("client", 0, o))
    /\ \/ /\ o = "ok"
          /\ last_source' = "binance_client"
          /\ ret' = Returned(Data("client", 0))
          /\ pc' = "idle"
          /\ UNCHANGED <<exc, mi>>
       \/ /\ o = "raise"
          /\ exc' = Exc("client", 0)
          /\ mi' = 1
          /\ pc' = "klines_mirror"
          /\ UNCHANGED <<last_source, ret>>
    /\ UNCHANGED <<mirror_urls, source_before, fn, symbol, BetweenLocals>>
    /\ FetcherFrame

\* variant: _try_http_klines without the status_code test (any answer is returned)
KlinesMirrorNoStatusTest(o) ==
    /\ pc = "klines_mirror"
    /\ mi <= mirror_urls
    /\ attempts' = Append(attempts, Att("mirror", mi, o))
    /\ \/ /\ o \in {"ok", "non200"}
          /\ last_source' = "binance_http"
          /\ ret' = Returned(Data("mirror", mi))
          /\ pc' = "idle"
          /\ UNCHANGED mi
       \/ /\ o = "null200"
          /\ pc' = "klines_yf"
          /\ UNCHANGED <<last_source, ret, mi>>
       \/ /\ o \in {"bad200", "raise"}
          /\ mi' = mi + 1
          /\ UNCHANGED <<last_source, ret, pc>>
    /\ UNCHANGED <<mirror_urls, source_before, fn, symbol, exc, BetweenLocals>>
    /\ FetcherFrame

\* one iteration of the loop of _try_http_klines, and what get_klines does with
\* the value when the loop returns one
KlinesMirror(o) ==
    /\ pc = "klines_mirror"
    /\ mi <= mirror_urls
    /\ attempts' = Append(attempts, Att("mirror", mi, o))
    /\ \/ /\ o = "ok"            \* return r.json(); http_data is not None
          /\ last_source' = "binance_http"
          /\ ret' = Returned(Data("mirror", mi))
          /\ pc' = "idle"
          /\ UNCHANGED mi
       \/ /\ o = "null200"       \* return r.json(), which is None: on to yfinance
          /\ pc' = "klines_yf"
          /\ UNCHANGED <<last_source, ret, mi>>
       \/ /\ o \in {"bad200", "non200", "raise"}
          /\ mi' = mi + 1
          /\ UNCHANGED <<last_source, ret, pc>>
    /\ UNCHANGED <<mirror_urls, source_before, fn, symbol, exc, BetweenLocals>>
    /\ FetcherFrame

\* _try_http_klines ran out of mirrors: return None
KlinesMirrorsExhausted ==
    /\ pc = "klines_mirror"
    /\ mi > mirror_urls
    /\ pc' = "klines_yf"
    /\ UNCHANGED <<mirror_urls, source_before, last_source, fn, symbol, mi, exc, attempts, ret, BetweenLocals>>
    /\ FetcherFrame

\* what _try_yfinance_klines returns: rows, or None
YfResult(sym, o) ==
    IF o = "noimport" THEN None
    ELSE IF _map_symbol_to_yf(sym) = NotMappable THEN None
    ELSE IF o \in {"raise", "empty"} THEN None
    ELSE Data("yfinance", 0)

KlinesYf(o) ==
    /\ pc = "klines_yf"
    /\ attempts' = Append(attempts,
            Att("yfinance", 0,
                IF o # "noimport" /\ _map_symbol_to_yf(symbol) = NotMappable
                THEN "unmappable" ELSE o))
    /\ \/ /\ YfResult(symbol, o) # None
          /\ last_source' = "yfinance"
          /\ ret' = Returned(YfResult(symbol, o))
       \/ /\ YfResult(symbol, o) = None
          /\ ret' = Raised(BareRaise)
          /\ UNCHANGED last_source
    /\ pc' = "idle"
    /\ UNCHANGED <<mirror_urls, source_before, fn, symbol, mi, exc, BetweenLocals>>
    /\ FetcherFrame

-----------------------------------------------------------------------------
(* BinanceFetcher.fetch_ticker_24hr *)

CallFetchTicker ==
    /\ pc = "idle"
    /\ Enter("fetch_ticker_24hr", DefaultArgs, "ticker_primary")

TickerPrimary(o) ==
    /\ pc = "ticker_primary"
    /\ attempts' = Append(attempts, Att("client", 0, o))
    /\ \/ /\ o = "ok"
          /\ last_source' = "binance_client"
          /\ ret' = Returned(Data("client", 0))
          /\ pc' = "idle"
          /\ UNCHANGED <<exc, mi>>
       \/ /\ o = "raise"
          /\ exc' = Exc("client", 0)
          /\ mi' = 1
          /\ pc' = "ticker_mirror"
          /\ UNCHANGED <<last_source, ret>>
    /\ UNCHANGED <<mirror_urls, source_before, fn, symbol, BetweenLocals>>
    /\ FetcherFrame

TickerMirror(o) ==
    /\ pc = "ticker_mirror"
    /\ mi <= mirror_urls
    /\ attempts' = Append(attempts, Att("mirror", mi, o))
    /\ \/ /\ o = "ok"
          /\ last_source' = "binance_http"
          /\ ret' = Returned(Data("mirror", mi))
          /\ pc' = "idle"
          /\ UNCHANGED mi
       \/ /\ o = "bad200"        \* status 200, then r.json() raised
          /\ last_source' = "binance_http"
          /\ mi' = mi + 1
          /\ UNCHANGED <<ret, pc>>
       \/ /\ o \in {"non200", "raise"}
          /\ mi' = mi + 1
          /\ UNCHANGED <<last_source, ret, pc>>
    /\ UNCHANGED <<mirror_urls, source_before, fn, symbol, exc, BetweenLocals>>
    /\ FetcherFrame

\* variant: fetch_ticker_24hr ending with a bare `raise` like get_price
TickerFallThroughRaises == Raised(BareRaise)

\* how fetch_ticker_24hr ends when the loop over the mirrors falls through
TickerFallThrough == Returned(None)

TickerExhausted ==
    /\ pc = "ticker_mirror"
    /\ mi > mirror_urls
    /\ ret' = TickerFallThrough
    /\ pc' = "idle"
    /\ UNCHANGED <<mirror_urls, source_before, last_source, fn, symbol, mi, exc, attempts, BetweenLocals>>
    /\ FetcherFrame

-----------------------------------------------------------------------------
(* BinanceFetcher.get_klines_between *)

CallGetKlinesBetween(st, en, l) ==
    /\ pc = "idle"
    /\ pc' = "between_page" /\ fn' = "get_klines_between" /\ symbol' = BTCUSDT
    /\ mi' = 0 /\ exc' = NoExc /\ attempts' = <<>> /\ ret' = Running
    /\ all_rows' = <<>>
    /\ start_ms' = st /\ cursor' = st
    /\ end_ms' = en /\ limit' = l
    /\ requests' = <<>> /\ pages' = <<>>
    /\ UNCHANGED <<mirror_urls, last_source>>
    /\ source_before' = last_source
    /\ FetcherFrame

\* variant: the cursor set to the last close time itself
AdvanceCursorNoStep(last_close) == last_close

\* cursor = last_close + 1
AdvanceCursor(last_close) == last_close + 1

\* the rows handed to the caller by `return all_rows`
BetweenReturn(rows) == Returned([stage |-> "client", idx |-> 0, rows |-> rows])

\* one iteration of `while True`, the page being received
ReceivePage(batch) ==
    /\ pc = "between_page"
    /\ attempts' = Append(attempts, Att("client", 0, "ok"))
    /\ requests' = Append(requests, [startTime |-> cursor, endTime |-> end_ms, limit |-> limit])
    /\ pages' = Append(pages, batch)
    /\ \/ /\ batch = <<>>                          \* if not batch: break
          /\ ret' = BetweenReturn(all_rows)
          /\ pc' = "idle"
          /\ UNCHANGED <<all_rows, cursor>>
       \/ /\ batch # <<>>
          /\ all_rows' = all_rows \o batch
          /\ LET last_close == batch[Len(batch)].close_time
             IN  \/ /\ (last_close >= end_ms \/ Len(batch) < limit)     \* break
                    /\ ret' = BetweenReturn(all_rows')
                    /\ pc' = "idle"
                    /\ UNCHANGED cursor
                 \/ /\ ~(last_close >= end_ms \/ Len(batch) < limit)
                    /\ cursor' = AdvanceCursor(last_close)
                    /\ UNCHANGED <<ret, pc>>
    /\ UNCHANGED <<mirror_urls, source_before, last_source, fn, symbol, mi, exc, start_ms, end_ms, limit>>
    /\ FetcherFrame

\* self.client.klines answers some page the exchange can answer
BetweenPage == \E batch \in PagesFor(cursor, end_ms, limit) : ReceivePage(batch)

\* variant: the loop guarded by try/except that breaks and returns what it has
BetweenRaiseReturnsPartial == Returned([stage |-> "client", idx |-> 0, rows |-> all_rows])

\* what the caller gets when self.client.klines raises inside the loop
BetweenRaise == Raised(Exc("client", Len(requests) + 1))

\* self.client.klines raises: nothing catches it
BetweenPageRaises ==
    /\ pc = "between_page"
    /\ attempts' = Append(attempts, Att("client", 0, "raise"))
    /\ requests' = Append(requests, [startTime |-> cursor, endTime |-> end_ms, limit |-> limit])
    /\ ret' = BetweenRaise
    /\ pc' = "idle"
    /\ UNCHANGED <<mirror_urls, source_before, last_source, fn, symbol, mi, exc, start_ms, cursor,
                   all_rows, end_ms, limit, pages>>
    /\ FetcherFrame

-----------------------------------------------------------------------------
(* The fetcher as a state machine *)

InitFetcher ==
    /\ mirror_urls \in 0..MaxMirrors
    /\ last_source = "None" /\ source_before = "None"
    /\ pc = "idle" /\ fn = "none" /\ symbol = DefaultArgs
    /\ mi = 0 /\ exc = NoExc /\ attempts = <<>> /\ ret = Running
    /\ start_ms = 0 /\ cursor = 0 /\ all_rows = <<>> /\ end_ms = 0 /\ limit = 0
    /\ requests = <<>> /\ pages = <<>>


-----------------------------------------------------------------------------
(* BinanceFetcher._map_symbol_to_yf as a function of its argument *)

Fragments == { <<"B">>, <<"U", "P">>, <<"D", "O", "W", "N">>, <<"3", "L">>, <<"3", "S">>,
               USDT, <<"U", "S", "D">>, <<"T">>, <<"S">> }

RECURSIVE Concat(_)
Concat(fs) == IF fs = <<>> THEN <<>> ELSE Head(fs) \o Concat(Tail(fs))

MapSymbols == { Concat(fs) : fs \in UNION { [1..k -> Fragments] : k \in 0..MaxFrags } }

NotCalled == <<"?">>

InitMapIdle == yf_in = <<>> /\ yf_out = NotCalled

InitMap == yf_in \in MapSymbols /\ yf_out = NotCalled

MapFrame == UNCHANGED <<fetcherVars, dfVars, emaVars, rsiVars, alignVars, histVars, scanVars,
    topVars, sigVars, lbVars, abVars, schedVars, tgVars>>

MapSymbol ==
    /\ yf_out = NotCalled
    /\ yf_out' = _map_symbol_to_yf(yf_in)
    /\ UNCHANGED yf_in
    /\ MapFrame

-----------------------------------------------------------------------------
(* BinanceFetcher.to_dataframe *)

\* the twelve candle fields, `cols`
Cols == <<"open_time", "open", "high", "low", "close", "volume", "close_time",
          "quote_volume", "trades", "taker_buy_base", "taker_buy_quote", "ignore">>

\* pd.to_datetime(ms, unit='ms', utc=True)
ToDatetime(ms) == [utc_ms |-> ms]
\* astype(float) of a numeric field as the exchange sends it
AsFloat(v) == [float |-> v]

\* a raw candle row, reduced to its open time and one numeric field
RawRows == [open_time : 0..MaxTime, close : 0..1]
RawInputs == UNION { [1..k -> RawRows] : k \in 0..MaxRows }

\* the row of the frame made from a raw row
FrameRow(r) == [open_time |-> ToDatetime(r.open_time), close |-> AsFloat(r.close)]

IndexPerms(n) == { f \in [1..n -> 1..n] : \A i, j \in 1..n : i # j => f[i] # f[j] }

NonDecreasing(idx) == \A i \in 1..(Len(idx) - 1) : idx[i].utc_ms <= idx[i + 1].utc_ms

\* variant: set_index without sort_index
SortIndexOmitted(rows) == { rows }

\* DataFrame.sort_index(): the rows in ascending order of the index; the order in
\* which rows of equal index come out is not specified (quicksort is not stable)
SortIndex(rows) ==
    { [i \in 1..Len(rows) |-> rows[f[i]]] : f \in IndexPerms(Len(rows)) } \cap
    { t \in [1..Len(rows) -> { rows[i] : i \in 1..Len(rows) }] :
        NonDecreasing([i \in 1..Len(rows) |-> t[i].open_time]) }

\* DataFrame.set_index('open_time'): the column becomes the index and is dropped
SetIndex(cols, name) == SelectSeq(cols, LAMBDA c : c # name)

\* the tables to_dataframe(rows) may return
to_dataframe(rows) ==
    IF rows = <<>>
    THEN { [index_name |-> "RangeIndex", columns |-> Cols, index |-> <<>>, rows |-> <<>>] }
    ELSE { [index_name |-> "open_time",
            columns |-> SetIndex(Cols, "open_time"),
            index |-> [i \in 1..Len(t) |-> t[i].open_time],
            rows |-> t] :
           t \in SortIndex([i \in 1..Len(rows) |-> FrameRow(rows[i])]) }

NoTable == [index_name |-> "unset", columns |-> <<>>, index |-> <<>>, rows |-> <<>>]

InitDfIdle == raw = <<>> /\ df = NoTable

InitDf == raw \in RawInputs /\ df = NoTable

DfFrame == UNCHANGED <<fetcherVars, mapVars, emaVars, rsiVars, alignVars, histVars, scanVars,
    topVars, sigVars, lbVars, abVars, schedVars, tgVars>>

ToDataframe ==
    /\ df = NoTable
    /\ df' \in to_dataframe(raw)
    /\ UNCHANGED raw
    /\ DfFrame

-----------------------------------------------------------------------------
(* Exact rational arithmetic: <<numerator, denominator>>, denominator > 0,   *)
(* in lowest terms                                                           *)

Abs(x) == IF x < 0 THEN -x ELSE x

RECURSIVE GCD(_, _)
GCD(a, b) == IF b = 0 THEN a ELSE GCD(b, a % b)

Rat(n, d) ==
    LET g == GCD(Abs(n), Abs(d))
        sg == IF d < 0 THEN -1 ELSE 1
    IN  <<sg * (n \div g), sg * (d \div g)>>

RInt(n) == <<n, 1>>
RAdd(a, b) == Rat(a[1] * b[2] + b[1] * a[2], a[2] * b[2])
RSub(a, b) == Rat(a[1] * b[2] - b[1] * a[2], a[2] * b[2])
RMul(a, b) == Rat(a[1] * b[1], a[2] * b[2])
RDiv(a, b) == Rat(a[1] * b[2], a[2] * b[1])

-----------------------------------------------------------------------------
(* indicators.ema: series.ewm(span=period, adjust=False).mean()            *)

\* the recursion of pandas' ewm mean over a series without missing values:
\*   com = (span - 1) / 2, alpha = 1 / (1 + com), old_wt_factor = 1 - alpha,
\*   new_wt = 1 if adjust else alpha; weighted = vals[0]; old_wt = 1; then per value
\*   old_wt *= old_wt_factor
\*   weighted = (old_wt * weighted + new_wt * cur) / (old_wt + new_wt)
\*   old_wt = old_wt + new_wt if adjust else 1
RECURSIVE EwmLoop(_, _, _, _, _, _)
EwmLoop(vals, i, weighted, old_wt, alpha, adjust) ==
    IF i > Len(vals) THEN <<>>
    ELSE LET new_wt == IF adjust THEN RInt(1) ELSE alpha
             ow == RMul(old_wt, RSub(RInt(1), alpha))
             w == RDiv(RAdd(RMul(ow, weighted), RMul(new_wt, RInt(vals[i]))),
                       RAdd(ow, new_wt))
             next_wt == IF adjust THEN RAdd(ow, new_wt) ELSE RInt(1)
         IN  <<w>> \o EwmLoop(vals, i + 1, w, next_wt, alpha, adjust)

EwmMean(vals, span, adjust) ==
    LET com == RDiv(RInt(span - 1), RInt(2))
        alpha == RDiv(RInt(1), RAdd(RInt(1), com))
    IN  IF vals = <<>> THEN <<>>
        ELSE <<RInt(vals[1])>> \o EwmLoop(vals, 2, RInt(vals[1]), RInt(1), alpha, adjust)

\* variant: ewm with pandas' default adjust=True
EmaAdjusted(s, p) == EwmMean(s, p, TRUE)

ema(s, p) == EwmMean(s, p, FALSE)

SeriesInputs == UNION { [1..k -> 0..MaxVal] : k \in 1..MaxSeriesLen }

InitEmaIdle == series = <<>> /\ period = 1 /\ ema_out = <<>>

InitEma == series \in SeriesInputs /\ period \in 1..MaxPeriod /\ ema_out = <<>>

EmaFrame == UNCHANGED <<fetcherVars, mapVars, dfVars, rsiVars, alignVars, histVars, scanVars,
    topVars, sigVars, lbVars, abVars, schedVars, tgVars>>

ComputeEma ==
    /\ ema_out = <<>>
    /\ ema_out' = ema(series, period)
    /\ UNCHANGED <<series, period>>
    /\ EmaFrame

-----------------------------------------------------------------------------
(* Floating-point values: an exact rational, NaN or an infinity               *)

NaN == <<0, 0>>
PosInf == <<1, 0>>
NegInf == <<-1, 0>>

IsNaN(x) == x = NaN
IsInf(x) == x[2] = 0 /\ x[1] # 0
Finite(x) == x[2] # 0
Sign(x) == IF x[1] > 0 THEN 1 ELSE IF x[1] < 0 THEN -1 ELSE 0

FNeg(a) == <<-a[1], a[2]>>

FAdd(a, b) ==
    IF IsNaN(a) \/ IsNaN(b) THEN NaN
    ELSE IF IsInf(a) THEN (IF IsInf(b) /\ b # a THEN NaN ELSE a)
    ELSE IF IsInf(b) THEN b
    ELSE RAdd(a, b)

FSub(a, b) == FAdd(a, FNeg(b))

FMul(a, b) ==
    IF IsNaN(a) \/ IsNaN(b) THEN NaN
    ELSE IF IsInf(a) \/ IsInf(b)
         THEN (IF Sign(a) * Sign(b) = 0 THEN NaN ELSE <<Sign(a) * Sign(b), 0>>)
    ELSE RMul(a, b)

\* numpy / pandas float division: x / 0 is an infinity, 0 / 0 is NaN, nothing raises
FDiv(a, b) ==
    IF IsNaN(a) \/ IsNaN(b) THEN NaN
    ELSE IF IsInf(b) THEN (IF IsInf(a) THEN NaN ELSE RInt(0))
    ELSE IF Sign(b) = 0 THEN (IF Sign(a) = 0 THEN NaN ELSE <<Sign(a), 0>>)
    ELSE IF IsInf(a) THEN <<Sign(a) * Sign(b), 0>>
    ELSE RDiv(a, b)

\* a < b on floats: False as soon as one side is NaN
FLt(a, b) ==
    /\ ~IsNaN(a) /\ ~IsNaN(b) /\ a # b
    /\ \/ a = NegInf
       \/ b = PosInf
       \/ Finite(a) /\ Finite(b) /\ a[1] * b[2] < b[1] * a[2]

FLe(a, b) == ~IsNaN(a) /\ ~IsNaN(b) /\ (a = b \/ FLt(a, b))

\* a column as a stored array: every entry computed once
Array(f) == f \o <<>>

\* a column of floats from a column of numbers
Floats(s) == Array([i \in 1..Len(s) |-> RInt(s[i])])

-----------------------------------------------------------------------------
(* pandas Series operations used by the indicators                            *)

\* Series.shift(1): every value moves one position down, the first becomes NaN
Shift(s) == Array([i \in 1..Len(s) |-> IF i = 1 THEN NaN ELSE s[i - 1]])

\* Series.diff(): s - s.shift(1)
Diff(s) == LET prev == Shift(s) IN Array([i \in 1..Len(s) |-> FSub(s[i], prev[i])])

RECURSIVE FSum(_, _, _)
FSum(s, lo, hi) == IF lo > hi THEN RInt(0) ELSE FAdd(s[lo], FSum(s, lo + 1, hi))

\* Series.rolling(window).mean(): min_periods = window, so NaN until the window holds
\* `window` observations, none of them NaN
RollingMean(s, window) ==
    Array([i \in 1..Len(s) |->
        IF i < window \/ \E j \in (i - window + 1)..i : IsNaN(s[j]) THEN NaN
        ELSE FDiv(FSum(s, i - window + 1, i), RInt(window))])

-----------------------------------------------------------------------------
(* indicators.rsi                                                             *)

\* np.where(delta > 0, delta, 0.0)
Gain(delta) ==
    Array([i \in 1..Len(delta) |-> IF FLt(RInt(0), delta[i]) THEN delta[i] ELSE RInt(0)])

\* np.where(delta < 0, -delta, 0.0)
Loss(delta) ==
    Array([i \in 1..Len(delta) |-> IF FLt(delta[i], RInt(0)) THEN FNeg(delta[i]) ELSE RInt(0)])

rsi(s, p) ==
    LET delta == Diff(Floats(s))
        gain_rol == RollingMean(Gain(delta), p)
        loss_rol == RollingMean(Loss(delta), p)
        rs == Array([i \in 1..Len(s) |-> FDiv(gain_rol[i], loss_rol[i])])
    IN  Array([i \in 1..Len(s) |->
            FSub(RInt(100), FDiv(RInt(100), FAdd(RInt(1), rs[i])))])

InitRsiIdle == rsi_series = <<>> /\ rsi_period = 1 /\ rsi_out = <<>>

InitRsi == rsi_series \in SeriesInputs /\ rsi_period \in 1..MaxPeriod /\ rsi_out = <<>>

RsiFrame == UNCHANGED <<fetcherVars, mapVars, dfVars, emaVars, alignVars, histVars, scanVars,
    topVars, sigVars, lbVars, abVars, schedVars, tgVars>>

ComputeRsi ==
    /\ rsi_out = <<>>
    /\ rsi_out' = rsi(rsi_series, rsi_period)
    /\ UNCHANGED <<rsi_series, rsi_period>>
    /\ RsiFrame

-----------------------------------------------------------------------------
(* indicators.bollinger, true_range, atr, compute_ab                          *)

FAbs(a) == <<Abs(a[1]), a[2]>>

\* DataFrame.max(axis=1): the largest value of a row that is not NaN, NaN if all are
RowMax(row) ==
    LET defined == {k \in 1..Len(row) : ~IsNaN(row[k])}
    IN  IF defined = {} THEN NaN
        ELSE row[CHOOSE k \in defined : \A j \in defined : FLe(row[j], row[k])]

Squared(a) == FMul(a, a)

\* Series.rolling(length).std(ddof=0), carried by its square (the population
\* variance of the window): mean of the squares minus the square of the mean
RollingVar(s, window) ==
    LET sq == Array([i \in 1..Len(s) |-> Squared(s[i])])
        mean_sq == RollingMean(sq, window)
        mean == RollingMean(s, window)
    IN  Array([i \in 1..Len(s) |-> FSub(mean_sq[i], Squared(mean[i]))])

\* bollinger: bb_middle and bb_std (by its square); bb_upper = bb_middle + mult * bb_std
\* and bb_lower = bb_middle - mult * bb_std follow from them
bollinger(s, length, mult) ==
    [bb_middle |-> RollingMean(s, length), bb_var |-> RollingVar(s, length)]

Column(table, c) == Array([i \in 1..Len(table) |-> RInt(table[i][c])])

\* variant: the true range without the previous close
TrueRangeHighLow(table) ==
    LET high == Column(table, "high")
        low == Column(table, "low")
    IN  Array([i \in 1..Len(table) |-> FSub(high[i], low[i])])

true_range(table) ==
    LET prev_close == Shift(Column(table, "close"))
        high == Column(table, "high")
        low == Column(table, "low")
    IN  Array([i \in 1..Len(table) |->
            RowMax(<<FSub(high[i], low[i]),
                     FAbs(FSub(high[i], prev_close[i])),
                     FAbs(FSub(low[i], prev_close[i]))>>)])

atr(table, length) == RollingMean(true_range(table), length)

\* compute_ab: halfband / ATR with halfband = bb_upper - bb_middle = mult * bb_std.
\* Both are non-negative, so the quotient is carried exactly by its square,
\* mult^2 * variance / ATR^2 (0/0 is NaN and x/0 is inf for the square as for the root)
compute_ab(table, length, mult) ==
    LET bb == bollinger(Column(table, "close"), length, mult)
        tr_atr == atr(table, length)
    IN  Array([i \in 1..Len(table) |->
            FDiv(FMul(Squared(RInt(mult)), bb.bb_var[i]), Squared(tr_atr[i]))])

\* ab < threshold for an AB carried by its square and a threshold >= 0
AbBelow(ab, threshold) == FLt(ab, Squared(threshold))

-----------------------------------------------------------------------------
(* Weekly and daily tables                                                    *)

bb_mult == 2

\* shapes of a weekly candle: flat at 1, rising from 1 to 2, flat at 2
WeeklyBars == {[high |-> 1, low |-> 1, close |-> 1],
               [high |-> 2, low |-> 1, close |-> 2],
               [high |-> 2, low |-> 2, close |-> 2]}

\* the k-th weekly candle opens at day k * DaysPerWeek; days 0 .. DaysPerWeek-1 precede
\* the first weekly candle
WeekOpen(k) == k * DaysPerWeek

WeeklyTables ==
    UNION { { [k \in 1..n |-> [open_time |-> WeekOpen(k), high |-> b[k].high,
                                low |-> b[k].low, close |-> b[k].close]] :
              b \in [1..n -> WeeklyBars] } : n \in 0..MaxWeeks }

LastDay == WeekOpen(MaxWeeks + 1) - 1

\* the index of a daily table: the most recent n days, consecutive
DailyIndexes == { [i \in 1..n |-> LastDay - n + i] : n \in 1..(LastDay + 1) }

OpenTimes(table) == Array([i \in 1..Len(table) |-> table[i].open_time])

-----------------------------------------------------------------------------
(* scan_abw_volume_history.prepare_weekly_ab, map_weekly_to_daily;            *)
(* indicators.compute_weekly_ab                                               *)

\* pd.Series(dtype=float): no entries, and an index that is not a DatetimeIndex
EmptySeries == [index_type |-> "default", index |-> <<>>, values |-> <<>>]

\* from the weekly table wdf = to_dataframe(get_klines(symbol, '1w', ...))
prepare_weekly_ab(wdf_, weekly_len_, weekly_mult) ==
    IF wdf_ = <<>> THEN EmptySeries
    ELSE [index_type |-> "DatetimeIndex",
          index |-> OpenTimes(wdf_),
          values |-> Shift(compute_ab(wdf_, weekly_len_, weekly_mult))]

Aligned(values) == [kind |-> "series", values |-> values]
AlignRaised(e) == [kind |-> e, values |-> <<>>]
NotAligned == [kind |-> "none", values |-> <<>>]

\* Series.reindex(target, method='ffill') on an increasing index: each target label
\* takes the entry of the last index label at or before it, whatever that entry is
\* (filling looks at the labels only, never at the values), NaN if there is none
ReindexFfill(s, target) ==
    Array([k \in 1..Len(target) |->
        LET at_or_before == {j \in 1..Len(s.index) : s.index[j] <= target[k]}
        IN  IF at_or_before = {} THEN NaN
            ELSE s.values[CHOOSE j \in at_or_before : \A i \in at_or_before : i <= j]])

\* variant: method='bfill', each label takes the entry of the first index label at or
\* after it
ReindexBfill(s, target) ==
    Array([k \in 1..Len(target) |->
        LET at_or_after == {j \in 1..Len(s.index) : s.index[j] >= target[k]}
        IN  IF at_or_after = {} THEN NaN
            ELSE s.values[CHOOSE j \in at_or_after : \A i \in at_or_after : j <= i]])

Reindex(s, target, method) ==
    IF method = "ffill" THEN ReindexFfill(s, target) ELSE ReindexBfill(s, target)

\* the outcomes of weekly_series.reindex(daily_index, method=...).  The index of the
\* empty series is pandas' default index: an object Index before pandas 2.0 (the
\* result is all NaN), a RangeIndex since 2.0, which cannot be compared with the
\* datetimes of daily_index (TypeError: Cannot compare dtypes)
ReindexOutcomes(weekly_series, daily_index_, method) ==
    IF weekly_series.index_type = "default" /\ daily_index_ # <<>>
    THEN {Aligned(Reindex(weekly_series, daily_index_, method)), AlignRaised("TypeError")}
    ELSE {Aligned(Reindex(weekly_series, daily_index_, method))}

MapWeeklyToDailyBfill(daily_index_, weekly_series) ==
    ReindexOutcomes(weekly_series, daily_index_, "bfill")

map_weekly_to_daily(daily_index_, weekly_series) ==
    ReindexOutcomes(weekly_series, daily_index_, "ffill")

\* Series.dropna().iloc[-1] if the series has a defined entry, else nan
LastDefined(s) ==
    LET defined == {i \in 1..Len(s) : ~IsNaN(s[i])}
    IN  IF defined = {} THEN NaN
        ELSE s[CHOOSE i \in defined : \A j \in defined : j <= i]

\* from the weekly table wdf = to_dataframe(get_klines(symbol, weekly_interval, limit))
compute_weekly_ab(wdf_, length, mult) ==
    IF wdf_ = <<>> THEN NaN
    ELSE LastDefined(compute_ab(wdf_, length, mult))

\* no float has a negative denominator
NotComputed == <<0, -1>>

InitAlignIdle ==
    /\ wdf = <<>> /\ w_known = 0 /\ daily_index = <<>> /\ weekly_len = 1
    /\ ab_w_daily = NotAligned /\ ab_w_daily_ext = NotAligned /\ live_ab = NotComputed

\* wdf is a weekly table, its first w_known candles the table as it was known earlier
InitAlign ==
    /\ wdf \in WeeklyTables
    /\ w_known \in 0..Len(wdf)
    /\ daily_index \in DailyIndexes
    /\ weekly_len \in 1..MaxAbLen
    /\ ab_w_daily = NotAligned /\ ab_w_daily_ext = NotAligned /\ live_ab = NotComputed

AlignFrame == UNCHANGED <<fetcherVars, mapVars, dfVars, emaVars, rsiVars, histVars, scanVars,
    topVars, sigVars, lbVars, abVars, schedVars, tgVars>>

\* historical mode, once on the earlier table and once on the table with its later candles
AlignWeekly ==
    /\ ab_w_daily = NotAligned
    /\ ab_w_daily' \in map_weekly_to_daily(daily_index,
            prepare_weekly_ab(SubSeq(wdf, 1, w_known), weekly_len, bb_mult))
    /\ ab_w_daily_ext' \in map_weekly_to_daily(daily_index,
            prepare_weekly_ab(wdf, weekly_len, bb_mult))
    /\ UNCHANGED <<wdf, w_known, daily_index, weekly_len, live_ab>>
    /\ AlignFrame

\* live mode
ComputeWeeklyAb ==
    /\ live_ab = NotComputed
    /\ live_ab' = compute_weekly_ab(wdf, weekly_len, bb_mult)
    /\ UNCHANGED <<wdf, w_known, daily_index, weekly_len, ab_w_daily, ab_w_daily_ext>>
    /\ AlignFrame

-----------------------------------------------------------------------------
(* scan_abw_volume_history.find_signals_for_symbol                            *)

AbwLt == 1

\* --vol-mult: the multiples of the moving average a volume has to exceed
VolMults == {1, 2}

Low == [high |-> 1, low |-> 1, close |-> 1]
Rise == [high |-> 2, low |-> 1, close |-> 2]
Flat == [high |-> 2, low |-> 2, close |-> 2]

\* the weekly table of the most recent Len(shapes) weeks: its last candle is week MaxWeeks
RecentWeeks(shapes) ==
    [k \in 1..Len(shapes) |->
        [open_time |-> WeekOpen(MaxWeeks - Len(shapes) + k), high |-> shapes[k].high,
         low |-> shapes[k].low, close |-> shapes[k].close]]

\* weekly tables a symbol is evaluated with: none, one candle, quiet weeks, a wide
\* band, an undefined week in the middle
SampleWeeklyTables ==
    { RecentWeeks(shapes) :
        shapes \in {<<>>, <<Rise>>, <<Rise, Rise>>, <<Low, Rise, Rise>>, <<Rise, Flat, Low>>} }

\* the daily table handed on by get_daily_df: the most recent n days with their volumes
DailyTables ==
    UNION { { [i \in 1..n |-> [open_time |-> LastDay - n + i, volume |-> v[i]]] :
              v \in [1..n -> 0..MaxVolume] } : n \in 0..MaxDays }

\* variant: the moving average of the window that ends with the bar itself
VolMaIncludingBar(volume, ma_len) == RollingMean(volume, ma_len)

\* daily_df['volume'].rolling(vol_ma_len).mean().shift(1)
VolMaBefore(volume, ma_len) == Shift(RollingMean(volume, ma_len))

HitColumns == <<"symbol", "date", "ab_w", "volume", "vol_ma">>

\* pd.DataFrame(columns=[...]) and hits[[...]]
Hits(rows) == [kind |-> "returned", columns |-> HitColumns, rows |-> rows]
HitsRaised(e) == [kind |-> e, columns |-> <<>>, rows |-> <<>>]
NotReturned == [kind |-> "none", columns |-> <<>>, rows |-> <<>>]

\* daily_df[cond]: the rows that satisfy cond, in index order
RECURSIVE SelectRows(_, _, _)
SelectRows(rows, cond, i) ==
    IF i > Len(rows) THEN <<>>
    ELSE (IF cond[i] THEN <<rows[i]>> ELSE <<>>) \o SelectRows(rows, cond, i + 1)

\* the outcomes of find_signals_for_symbol: what it returns or raises, with the columns
\* ab_w and vol_ma it has added to daily_df by then
find_signals_for_symbol(sym, daily, weekly, abw_lt, ma_len, mult, w_len, w_mult) ==
    IF daily = <<>> THEN {[ret |-> Hits(<<>>), ab_w |-> <<>>, vol_ma |-> <<>>]}
    ELSE
      LET weekly_ab == prepare_weekly_ab(weekly, w_len, w_mult)
          volume == Column(daily, "volume")
          vol_ma_ == VolMaBefore(volume, ma_len)
      IN  { IF a.kind # "series"
            THEN [ret |-> HitsRaised(a.kind), ab_w |-> <<>>, vol_ma |-> <<>>]
            ELSE LET cond == [i \in 1..Len(daily) |->
                                 /\ AbBelow(a.values[i], RInt(abw_lt))
                                 /\ FLt(FMul(RInt(mult), vol_ma_[i]), volume[i])]
                     rows == [i \in 1..Len(daily) |->
                                 [symbol |-> sym, date |-> daily[i].open_time,
                                  ab_w |-> a.values[i], volume |-> volume[i],
                                  vol_ma |-> vol_ma_[i]]]
                 IN  [ret |-> Hits(SelectRows(rows, cond, 1)),
                      ab_w |-> a.values, vol_ma |-> vol_ma_]
            : a \in map_weekly_to_daily(OpenTimes(daily), weekly_ab) }

InitHistIdle ==
    /\ daily_df = <<>> /\ hist_wdf = <<>> /\ hist_weekly_len = 1
    /\ vol_ma_len = 1 /\ vol_mult = 1
    /\ hist_ab_w = <<>> /\ hist_vol_ma = <<>> /\ hits = NotReturned

InitHist ==
    /\ daily_df \in DailyTables
    /\ hist_wdf \in SampleWeeklyTables
    /\ hist_weekly_len \in 1..MaxAbLen
    /\ vol_ma_len \in 1..MaxMaLen
    /\ vol_mult \in VolMults
    /\ hist_ab_w = <<>> /\ hist_vol_ma = <<>> /\ hits = NotReturned

HistFrame == UNCHANGED <<fetcherVars, mapVars, dfVars, emaVars, rsiVars, alignVars, scanVars,
    topVars, sigVars, lbVars, abVars, schedVars, tgVars>>

FindSignalsForSymbol ==
    /\ hits = NotReturned
    /\ \E o \in find_signals_for_symbol(BTCUSDT, daily_df, hist_wdf, AbwLt, vol_ma_len,
                                        vol_mult, hist_weekly_len, bb_mult) :
          /\ hits' = o.ret
          /\ hist_ab_w' = o.ab_w
          /\ hist_vol_ma' = o.vol_ma
    /\ UNCHANGED <<daily_df, hist_wdf, hist_weekly_len, vol_ma_len, vol_mult>>
    /\ HistFrame

-----------------------------------------------------------------------------
(* scan_abw_volume.daily_volume_stats, scan; scan_abw_volume_history.scan_history *)

Sym(c) == <<c>> \o USDT

\* the symbols list_top_usdt_symbols may hand to a scan, best first
TopSymbols == <<Sym("A"), Sym("B"), Sym("C"), Sym("D")>>

\* the daily table of the most recent Len(v) days with volumes v
DailyOf(v) == [i \in 1..Len(v) |-> [open_time |-> LastDay - Len(v) + i, volume |-> v[i]]]

\* what the exchange answers for one symbol during a scan: its weekly and daily
\* klines, or a failure of one of the two fetches (every source stage exhausted)
ScanWeeklySamples == { RecentWeeks(shapes) : shapes \in {<<>>, <<Rise, Rise, Rise>>, <<Low, Rise>>} }
ScanDailySamples == { DailyOf(v) : v \in {<<>>, <<1, 3>>, <<1, 1, 3>>} }

SymbolAnswers ==
    [fail : {"weekly", "daily"}, weekly : {<<>>}, daily : {<<>>}]
    \cup [fail : {"none"}, weekly : ScanWeeklySamples, daily : ScanDailySamples]

\* variant: the average of the ma_len bars before the latest one
DailyVolumeStatsBeforeLatest(daily, ma_len) ==
    LET volume == Column(daily, "volume")
        notna == Cardinality({i \in 1..Len(volume) : ~IsNaN(volume[i])})
    IN  IF daily = <<>> \/ notna < ma_len + 1
        THEN [latest |-> NaN, ma |-> NaN]
        ELSE [latest |-> volume[Len(volume)],
              ma |-> VolMaBefore(volume, ma_len)[Len(volume)]]

\* daily_volume_stats, from the daily table df = to_dataframe(get_klines(symbol, '1d'))
daily_volume_stats(daily, ma_len) ==
    LET volume == Column(daily, "volume")
        notna == Cardinality({i \in 1..Len(volume) : ~IsNaN(volume[i])})
    IN  IF daily = <<>> \/ notna < ma_len + 1
        THEN [latest |-> NaN, ma |-> NaN]
        ELSE [latest |-> volume[Len(volume)],
              ma |-> RollingMean(volume, ma_len)[Len(volume)]]

\* the records one symbol adds to matches, from its AB_W and volume statistics
scan_match(sym, ab_w_, latest, ma, abw_lt, mult) ==
    IF ~(IsNaN(ab_w_) \/ IsNaN(latest) \/ IsNaN(ma))
       /\ AbBelow(ab_w_, abw_lt) /\ FLt(FMul(mult, ma), latest)
    THEN << [symbol |-> sym, ab_w |-> ab_w_, vol |-> latest, vol_ma |-> ma] >>
    ELSE <<>>

\* the body of the try block of scan for one symbol
ScanBody(sym, answer, abw_lt, ma_len, mult, w_len, w_mult) ==
    IF answer.fail # "none" THEN [raised |-> TRUE, records |-> <<>>]
    ELSE LET ab_w_ == compute_weekly_ab(answer.weekly, w_len, w_mult)
             vols == daily_volume_stats(answer.daily, ma_len)
         IN  [raised |-> FALSE,
              records |-> scan_match(sym, ab_w_, vols.latest, vols.ma,
                                     RInt(abw_lt), RInt(mult))]

\* the outcomes of the try block of scan_history for one symbol
HistoryBody(sym, answer, abw_lt, ma_len, mult, w_len, w_mult) ==
    IF answer.fail # "none" THEN {HitsRaised("Exception")}
    ELSE { o.ret : o \in find_signals_for_symbol(sym, answer.daily, answer.weekly, abw_lt,
                                                 ma_len, mult, w_len, w_mult) }

\* variant: the records gathered so far are lost when a symbol fails
OnSymbolErrorLosesRecords(acc) == <<>>

\* except Exception: logger.exception(...): the accumulated records stay as they are
OnSymbolError(acc) == acc

\* the list scan returns
Matches(rows) == [kind |-> "returned", columns |-> <<>>, rows |-> rows]

\* DataFrame.sort_values(by='date'): ascending dates; rows of equal date in any order
RECURSIVE SortValuesByDate(_)
SortValuesByDate(rowset) ==
    IF rowset = {} THEN {<<>>}
    ELSE UNION { { <<r>> \o t : t \in SortValuesByDate(rowset \ {r}) } :
                 r \in {r \in rowset : \A q \in rowset : r.date <= q.date} }

Range(s) == { s[i] : i \in 1..Len(s) }

\* pd.concat(all_hits)
ConcatHits(tables) == Concat([k \in 1..Len(tables) |-> tables[k].rows])

NoArgs == [ma_len |-> 1, mult |-> 1, w_len |-> 1]

InitScanIdle ==
    /\ scan_fn = "none" /\ scan_pc = "idle" /\ symbols = <<>> /\ scan_args = NoArgs
    /\ sym_i = 1 /\ scan_log = <<>> /\ matches = <<>> /\ all_hits = <<>>
    /\ scan_ret = NotReturned

InitScan == InitScanIdle

ScanFrame == UNCHANGED <<fetcherVars, mapVars, dfVars, emaVars, rsiVars, alignVars, histVars,
    topVars, sigVars, lbVars, abVars, schedVars, tgVars>>

\* entry of scan / scan_history, the symbol list obtained
Enumerate(f) ==
    /\ scan_pc = "idle"
    /\ scan_fn' = f
    /\ scan_pc' = "loop"
    /\ \E n \in 0..MaxSymbols : symbols' = SubSeq(TopSymbols, 1, n)
    /\ scan_args' \in [ma_len : 1..MaxMaLen, mult : VolMults, w_len : 1..MaxAbLen]
    /\ sym_i' = 1 /\ scan_log' = <<>> /\ matches' = <<>> /\ all_hits' = <<>>
    /\ scan_ret' = NotReturned
    /\ ScanFrame

CallScan == scan_fn = "none" /\ Enumerate("scan")

\* one iteration of `for i, sym in enumerate(symbols, 1)`
ScanSymbol ==
    /\ scan_fn = "scan" /\ scan_pc = "loop" /\ sym_i <= Len(symbols)
    /\ \E answer \in SymbolAnswers :
          LET o == ScanBody(symbols[sym_i], answer, AbwLt, scan_args.ma_len,
                            scan_args.mult, scan_args.w_len, bb_mult)
          IN  /\ matches' = IF o.raised THEN OnSymbolError(matches)
                            ELSE matches \o o.records
              /\ scan_log' = Append(scan_log, [symbol |-> symbols[sym_i], answer |-> answer,
                                               raised |-> o.raised])
    /\ sym_i' = sym_i + 1
    /\ UNCHANGED <<scan_fn, scan_pc, symbols, scan_args, all_hits, scan_ret>>
    /\ ScanFrame

ScanReturn ==
    /\ scan_fn = "scan" /\ scan_pc = "loop" /\ sym_i > Len(symbols)
    /\ scan_ret' = Matches(matches)
    /\ scan_pc' = "done"
    /\ UNCHANGED <<scan_fn, symbols, scan_args, sym_i, scan_log, matches, all_hits>>
    /\ ScanFrame

CallScanHistory == scan_fn = "none" /\ Enumerate("scan_history")

\* one iteration of `for sym in symbols`
HistorySymbol ==
    /\ scan_fn = "scan_history" /\ scan_pc = "loop" /\ sym_i <= Len(symbols)
    /\ \E answer \in SymbolAnswers :
       \E o \in HistoryBody(symbols[sym_i], answer, AbwLt, scan_args.ma_len,
                            scan_args.mult, scan_args.w_len, bb_mult) :
          /\ all_hits' = IF o.kind # "returned" THEN OnSymbolError(all_hits)
                         ELSE IF o.rows # <<>> THEN Append(all_hits, o)
                         ELSE all_hits
          /\ scan_log' = Append(scan_log, [symbol |-> symbols[sym_i], answer |-> answer,
                                           ret |-> o])
    /\ sym_i' = sym_i + 1
    /\ UNCHANGED <<scan_fn, scan_pc, symbols, scan_args, matches, scan_ret>>
    /\ ScanFrame

HistoryReturn ==
    /\ scan_fn = "scan_history" /\ scan_pc = "loop" /\ sym_i > Len(symbols)
    /\ IF all_hits = <<>> THEN scan_ret' = Hits(<<>>)
       ELSE \E sorted \in SortValuesByDate(Range(ConcatHits(all_hits))) :
               scan_ret' = Hits(sorted)
    /\ scan_pc' = "done"
    /\ UNCHANGED <<scan_fn, symbols, scan_args, sym_i, scan_log, matches, all_hits>>
    /\ ScanFrame

-----------------------------------------------------------------------------
(* list_top_usdt_symbols (scan_abw_volume and scan_abw_volume_history)        *)

\* a quoteVolume string that float() rejects with ValueError
Unparsable == -1

QuoteVolumes == {Unparsable, 1, 2}

\* symbols of a ticker snapshot: two spot pairs, a leveraged token, a non-USDT pair
TickerSymbols == { Sym("A"), Sym("B"), <<"U", "P", "X">> \o USDT, <<"A", "B", "T", "C">> }

Snapshots ==
    UNION { [1..n -> [symbol : TickerSymbols, quoteVolume : QuoteVolumes]] : n \in 0..MaxTickers }

\* not sym.endswith('USDT') / any(x in sym for x in ['UP', 'DOWN', '3L', '3S']): continue
Kept(sym) ==
    /\ sym # <<>> /\ EndsWith(sym, USDT)
    /\ ~\E k \in 1..Len(LeveragedSuffixes) : Contains(sym, LeveragedSuffixes[k])

\* float(t.get('quoteVolume', 0.0)), 0.0 on ValueError
QuoteVolume(t) == IF t.quoteVolume = Unparsable THEN 0 ELSE t.quoteVolume

\* the loop that fills `pairs`
RECURSIVE Pairs(_)
Pairs(ts) ==
    IF ts = <<>> THEN <<>>
    ELSE (IF Kept(Head(ts).symbol) THEN << <<Head(ts).symbol, QuoteVolume(Head(ts))>> >>
          ELSE <<>>) \o Pairs(Tail(ts))

\* insertion of p behind every entry whose key is not smaller: equal keys keep their order
RECURSIVE InsertDesc(_, _)
InsertDesc(sorted, p) ==
    IF sorted = <<>> THEN <<p>>
    ELSE IF Head(sorted)[2] >= p[2] THEN <<Head(sorted)>> \o InsertDesc(Tail(sorted), p)
    ELSE <<p>> \o sorted

RECURSIVE Reversed(_)
Reversed(s) == IF s = <<>> THEN <<>> ELSE Reversed(Tail(s)) \o <<Head(s)>>

RECURSIVE InsertAll(_, _)
InsertAll(sorted, ps) ==
    IF ps = <<>> THEN sorted ELSE InsertAll(InsertDesc(sorted, Head(ps)), Tail(ps))

\* variant: ascending stable sort, then reversed (equal keys come out in reverse order)
SortAscendingReversed(ps) == InsertAll(<<>>, Reversed(ps))

\* list.sort(key=lambda x: x[1], reverse=True): stable, descending
SortDescending(ps) == InsertAll(<<>>, ps)

\* [p[0] for p in pairs[:top_n]]
TopNames(ps, n) == [i \in 1..(IF n < Len(ps) THEN n ELSE Len(ps)) |-> ps[i][1]]

TopReturned(names) == [kind |-> "returned", names |-> names]
TopRaised(e) == [kind |-> e, names |-> <<>>]
TopNotCalled == [kind |-> "none", names |-> <<>>]

\* scan_abw_volume.list_top_usdt_symbols, tickers = fetcher.fetch_ticker_24hr() or []
list_top_usdt_symbols(ts, n) ==
    IF ts = <<>> THEN TopRaised("RuntimeError")
    ELSE TopReturned(TopNames(SortDescending(Pairs(ts)), n))

\* scan_abw_volume_history.list_top_usdt_symbols, tickers = client.ticker_24hr()
history_list_top_usdt_symbols(ts, n) == TopReturned(TopNames(SortDescending(Pairs(ts)), n))

InitTopIdle == tickers = <<>> /\ top_n = 0 /\ top_fn = "none" /\ top_out = TopNotCalled

InitTop ==
    /\ tickers \in Snapshots
    /\ top_n \in 0..MaxTop
    /\ top_fn = "none" /\ top_out = TopNotCalled

TopFrame == UNCHANGED <<fetcherVars, mapVars, dfVars, emaVars, rsiVars, alignVars, histVars,
    scanVars, sigVars, lbVars, abVars, schedVars, tgVars>>

ListTop ==
    /\ top_fn = "none"
    /\ top_fn' = "scan"
    /\ top_out' = list_top_usdt_symbols(tickers, top_n)
    /\ UNCHANGED <<tickers, top_n>>
    /\ TopFrame

ListTopHistory ==
    /\ top_fn = "none"
    /\ top_fn' = "scan_history"
    /\ top_out' = history_list_top_usdt_symbols(tickers, top_n)
    /\ UNCHANGED <<tickers, top_n>>
    /\ TopFrame

-----------------------------------------------------------------------------
(* indicators.macd, compute_indicators and generate_signals                   *)

\* ema of a computed column without missing values (adjust=False):
\*   y[0] = x[0], y[i] = (1 - alpha) * y[i-1] + alpha * x[i], alpha = 2 / (span + 1)
RECURSIVE EmaColumnLoop(_, _, _, _)
EmaColumnLoop(col, i, prev, alpha) ==
    IF i > Len(col) THEN <<>>
    ELSE LET y == FAdd(FMul(FSub(RInt(1), alpha), prev), FMul(alpha, col[i]))
         IN  <<y>> \o EmaColumnLoop(col, i + 1, y, alpha)

ema_column(col, p) ==
    IF col = <<>> THEN <<>>
    ELSE <<col[1]>> \o EmaColumnLoop(col, 2, col[1], RDiv(RInt(2), RInt(p + 1)))

macd(s, fast, slow, signal) ==
    LET fast_ema == ema(s, fast)
        slow_ema == ema(s, slow)
        macd_line == Array([i \in 1..Len(s) |-> FSub(fast_ema[i], slow_ema[i])])
        signal_line == ema_column(macd_line, signal)
    IN  [macd |-> macd_line,
         signal |-> signal_line,
         hist |-> Array([i \in 1..Len(s) |-> FSub(macd_line[i], signal_line[i])])]

\* thresholds of the 'rsi' section of the indicator configuration
Overbought == 70
Oversold == 30

\* the 'indicators' section: {'ema': {fast, slow}, 'rsi': {period, overbought, oversold},
\* 'macd': {fast, slow, signal}}, fast / slow shared by ema and macd
IndicatorParams ==
    { [ema |-> [fast |-> p, slow |-> p + 1],
       rsi |-> [period |-> p, overbought |-> Overbought, oversold |-> Oversold],
       macd |-> [fast |-> p, slow |-> p + 1, signal |-> p]] : p \in 1..MaxPeriod }

\* the 'report' section's toggles
IndicatorToggles == [include_ema : BOOLEAN, include_rsi : BOOLEAN, include_macd : BOOLEAN]

\* close prices of a normalised table of 0 .. MaxSeriesLen rows
ClosePrices == UNION { [1..k -> 0..MaxVal] : k \in 0..MaxSeriesLen }

NoIndicators == [columns |-> {}]

\* the table with the columns the toggles ask for
compute_indicators(close, toggles, params) ==
    LET m == macd(close, params.macd.fast, params.macd.slow, params.macd.signal)
    IN  [columns |-> {"close"}
                     \cup (IF toggles.include_ema THEN {"ema_fast", "ema_slow"} ELSE {})
                     \cup (IF toggles.include_rsi THEN {"rsi"} ELSE {})
                     \cup (IF toggles.include_macd THEN {"macd", "signal", "hist"} ELSE {}),
         close |-> Floats(close),
         ema_fast |-> IF toggles.include_ema THEN ema(close, params.ema.fast) ELSE <<>>,
         ema_slow |-> IF toggles.include_ema THEN ema(close, params.ema.slow) ELSE <<>>,
         rsi |-> IF toggles.include_rsi THEN rsi(close, params.rsi.period) ELSE <<>>,
         macd |-> IF toggles.include_macd THEN m.macd ELSE <<>>,
         signal |-> IF toggles.include_macd THEN m.signal ELSE <<>>]

NoSignal == "none"
IndexError == "IndexError"

\* col.iloc[-k] exists
HasILoc(col, k) == Len(col) >= k
ILoc(col, k) == col[Len(col) + 1 - k]

\* latest_rsi = df['rsi'].iloc[-1]; >= overbought / <= oversold
RsiSignal(table, params) ==
    IF "rsi" \notin table.columns THEN NoSignal
    ELSE IF ~HasILoc(table.rsi, 1) THEN IndexError
    ELSE IF FLe(RInt(params.rsi.overbought), ILoc(table.rsi, 1)) THEN "RSI overbought"
    ELSE IF FLe(ILoc(table.rsi, 1), RInt(params.rsi.oversold)) THEN "RSI oversold"
    ELSE NoSignal

\* if a.iloc[-1] > b.iloc[-1] and a.iloc[-2] <= b.iloc[-2]: up
\* elif a.iloc[-1] < b.iloc[-1] and a.iloc[-2] >= b.iloc[-2]: down
\* (`and` evaluates its right operand only when the left one is true)
CrossSignal(a, b, up, down) ==
    LET bearish ==
            IF ~FLt(ILoc(a, 1), ILoc(b, 1)) THEN NoSignal
            ELSE IF ~HasILoc(a, 2) THEN IndexError
            ELSE IF FLe(ILoc(b, 2), ILoc(a, 2)) THEN down
            ELSE NoSignal
    IN  IF ~HasILoc(a, 1) THEN IndexError
        ELSE IF ~FLt(ILoc(b, 1), ILoc(a, 1)) THEN bearish
        ELSE IF ~HasILoc(a, 2) THEN IndexError
        ELSE IF FLe(ILoc(a, 2), ILoc(b, 2)) THEN up
        ELSE bearish

SignalsReturned(r, e, m) == [kind |-> "returned", rsi |-> r, ema_cross |-> e, macd_cross |-> m]
SignalsRaised(e) == [kind |-> e, rsi |-> NoSignal, ema_cross |-> NoSignal, macd_cross |-> NoSignal]
SignalsNotCalled == [kind |-> "none", rsi |-> NoSignal, ema_cross |-> NoSignal, macd_cross |-> NoSignal]

generate_signals(table, params) ==
    LET r == RsiSignal(table, params)
        e == IF {"ema_fast", "ema_slow"} \subseteq table.columns
             THEN CrossSignal(table.ema_fast, table.ema_slow,
                              "Bullish EMA crossover", "Bearish EMA crossover")
             ELSE NoSignal
        m == IF {"macd", "signal"} \subseteq table.columns
             THEN CrossSignal(table.macd, table.signal, "MACD bullish cross", "MACD bearish cross")
             ELSE NoSignal
    IN  IF IndexError \in {r, e, m} THEN SignalsRaised(IndexError)
        ELSE SignalsReturned(r, e, m)

InitSigIdle ==
    /\ sig_close = <<>>
    /\ sig_toggles = [include_ema |-> FALSE, include_rsi |-> FALSE, include_macd |-> FALSE]
    /\ sig_params = CHOOSE c \in IndicatorParams : c.rsi.period = 1
    /\ sig_pc = "done" /\ sig_df = NoIndicators /\ sig_out = SignalsNotCalled

InitSig ==
    /\ sig_close \in ClosePrices
    /\ sig_toggles \in IndicatorToggles
    /\ sig_params \in IndicatorParams
    /\ sig_pc = "start" /\ sig_df = NoIndicators /\ sig_out = SignalsNotCalled

SigFrame == UNCHANGED <<fetcherVars, mapVars, dfVars, emaVars, rsiVars, alignVars, histVars,
    scanVars, topVars, lbVars, abVars, schedVars, tgVars>>

\* MarketReporter._prepare_df: df_ind = compute_indicators(df, merged)
ComputeIndicators ==
    /\ sig_pc = "start"
    /\ sig_pc' = "indicators"
    /\ sig_df' = compute_indicators(sig_close, sig_toggles, sig_params)
    /\ UNCHANGED <<sig_close, sig_toggles, sig_params, sig_out>>
    /\ SigFrame

\* MarketReporter.check_signals: signals = generate_signals(df, self.config['indicators'])
GenerateSignals ==
    /\ sig_pc = "indicators"
    /\ sig_pc' = "done"
    /\ sig_out' = generate_signals(sig_df, sig_params)
    /\ UNCHANGED <<sig_close, sig_toggles, sig_params, sig_df>>
    /\ SigFrame

-----------------------------------------------------------------------------
(* scan_abw_volume_history.get_daily_df and the bars find_signals_for_symbol sees *)

\* get_klines(symbol, '1d', limit=days + 40)
FetchExtra == 40

\* df.tail(days + 5)
TailExtra == 5

\* DataFrame.tail(n): the last n rows (all of them when there are fewer)
TailRows(rows, n) ==
    IF Len(rows) <= n THEN rows ELSE SubSeq(rows, Len(rows) - n + 1, Len(rows))

\* the daily candles the source answers to a request for `wanted` of them: none, a short
\* history, or all of them; volume 1 on every day but the latest
DailyAnswers(wanted) ==
    { DailyOf([i \in 1..n |-> IF i = n THEN latest ELSE 1]) :
        n \in {0, wanted - FetchExtra + TailExtra, wanted}, latest \in 0..MaxVolume }

\* variant: the whole fetched table is kept
GetDailyDfUncut(answer, days) == answer

get_daily_df(answer, days) == TailRows(answer, days + TailExtra)

InitLbIdle ==
    /\ lb_days = 1 /\ lb_ma_len = 1 /\ lb_answer = <<>>
    /\ lb_df = <<>> /\ lb_vol_ma = <<>> /\ lb_hits = Hits(<<>>)

InitLb ==
    /\ lb_days \in 1..MaxLookback
    /\ lb_ma_len \in 1..FetchExtra
    /\ lb_answer \in DailyAnswers(lb_days + FetchExtra)
    /\ lb_df = <<>> /\ lb_vol_ma = <<>> /\ lb_hits = NotReturned

LbFrame == UNCHANGED <<fetcherVars, mapVars, dfVars, emaVars, rsiVars, alignVars, histVars,
    scanVars, topVars, sigVars, abVars, schedVars, tgVars>>

\* find_signals_for_symbol(fetcher, symbol, days, ...), the weekly candles of the last
\* MaxWeeks weeks all rising
FindSignalsOverLookback ==
    /\ lb_hits = NotReturned
    /\ LET daily == get_daily_df(lb_answer, lb_days)
       IN  /\ lb_df' = daily
           /\ \E o \in find_signals_for_symbol(BTCUSDT, daily,
                           RecentWeeks([k \in 1..MaxWeeks |-> Rise]), AbwLt, lb_ma_len,
                           1, 1, bb_mult) :
                 /\ lb_hits' = o.ret
                 /\ lb_vol_ma' = o.vol_ma
    /\ UNCHANGED <<lb_days, lb_ma_len, lb_answer>>
    /\ LbFrame

-----------------------------------------------------------------------------
(* indicators.atr and indicators.compute_ab applied to a table                *)

\* Bollinger multipliers
AbMults == {1, bb_mult}

InitAbIdle ==
    /\ ab_table = <<>> /\ ab_len = 1 /\ ab_mult = 1
    /\ ab_done = {"atr", "compute_ab"} /\ atr_out = <<>> /\ ab_out = <<>>

InitAb ==
    /\ ab_table \in WeeklyTables
    /\ ab_len \in 1..MaxAbLen
    /\ ab_mult \in AbMults
    /\ ab_done = {} /\ atr_out = <<>> /\ ab_out = <<>>

AbFrame == UNCHANGED <<fetcherVars, mapVars, dfVars, emaVars, rsiVars, alignVars, histVars,
    scanVars, topVars, sigVars, lbVars, schedVars, tgVars>>

ComputeAtr ==
    /\ "atr" \notin ab_done
    /\ ab_done' = ab_done \cup {"atr"}
    /\ atr_out' = atr(ab_table, ab_len)
    /\ UNCHANGED <<ab_table, ab_len, ab_mult, ab_out>>
    /\ AbFrame

ComputeAb ==
    /\ "compute_ab" \notin ab_done
    /\ ab_done' = ab_done \cup {"compute_ab"}
    /\ ab_out' = compute_ab(ab_table, ab_len, ab_mult)
    /\ UNCHANGED <<ab_table, ab_len, ab_mult, atr_out>>
    /\ AbFrame

-----------------------------------------------------------------------------
(* scheduler.MarketReporter: _prepare_df, periodic_report, check_signals      *)

\* self.config['indicators']
ReporterParams == CHOOSE c \in IndicatorParams : c.rsi.period = 1

\* what the sources answer for one configured symbol: the klines of the main interval
\* (every source failing, no candle, or candles) and the custom AB_W / volume block
\* (no spike, a spike, or one of its fetches failing)
ReporterAnswers ==
    [fail : {TRUE}, klines : {<<>>}, custom : {"quiet", "spike", "fail"}]
    \cup [fail : {FALSE}, klines : {<<>>, <<1, 2>>, <<2, 1, 2>>},
          custom : {"quiet", "spike", "fail"}]

PrepareRaised(e) == [columns |-> {}, raised |-> e]

\* get_klines raises when every source is exhausted; to_dataframe and
\* compute_indicators follow otherwise
_prepare_df(answer, toggles) ==
    IF answer.fail THEN PrepareRaised("RuntimeError")
    ELSE compute_indicators(answer.klines, toggles, ReporterParams)

Raises(e) == [raised |-> e, sent |-> FALSE]
Completes(sent) == [raised |-> "none", sent |-> sent]

HasSignal(sig) == sig.rsi # NoSignal \/ sig.ema_cross # NoSignal \/ sig.macd_cross # NoSignal

\* report.build_report: last = df.iloc[-1]
build_report(table) == IF Len(table.close) = 0 THEN Raises(IndexError) ELSE Completes(TRUE)

\* the body of `for symbol in ...` of check_signals; the custom block sits in a
\* try / except Exception of its own
check_signals_body(answer, toggles, enabled) ==
    LET table == _prepare_df(answer, toggles)
    IN  IF "close" \notin table.columns THEN Raises(table.raised)
        ELSE LET sig == generate_signals(table, ReporterParams)
             IN  IF sig.kind # "returned" THEN Raises(sig.kind)
                 ELSE IF HasSignal(sig) \/ (enabled /\ answer.custom = "spike")
                      THEN build_report(table)
                      ELSE Completes(FALSE)

\* the body of `for symbol in ...` of periodic_report
periodic_report_body(answer, toggles, enabled) ==
    LET table == _prepare_df(answer, toggles)
    IN  IF "close" \notin table.columns THEN Raises(table.raised)
        ELSE LET sig == generate_signals(table, ReporterParams)
             IN  IF sig.kind # "returned" THEN Raises(sig.kind)
                 ELSE build_report(table)

InitSchedIdle ==
    /\ sch_fn = "none" /\ sch_pc = "returned" /\ sch_symbols = <<>>
    /\ sch_toggles = [include_ema |-> FALSE, include_rsi |-> FALSE, include_macd |-> FALSE]
    /\ sch_enabled = FALSE /\ sch_i = 1 /\ sch_log = <<>>

InitSched ==
    /\ sch_fn = "none" /\ sch_pc = "idle"
    /\ sch_symbols \in { [i \in 1..n |-> TopSymbols[i]] : n \in 1..MaxSymbols }
    /\ sch_toggles \in IndicatorToggles
    /\ sch_enabled \in BOOLEAN
    /\ sch_i = 1 /\ sch_log = <<>>

SchedFrame == UNCHANGED <<fetcherVars, mapVars, dfVars, emaVars, rsiVars, alignVars, histVars,
    scanVars, topVars, sigVars, lbVars, abVars, tgVars>>

StartJob(f) ==
    /\ sch_pc = "idle"
    /\ sch_fn' = f /\ sch_pc' = "loop"
    /\ UNCHANGED <<sch_symbols, sch_toggles, sch_enabled, sch_i, sch_log>>
    /\ SchedFrame

\* one iteration; an exception that leaves the body leaves the loop and the job
JobSymbol(o, answer) ==
    /\ sch_log' = Append(sch_log, [symbol |-> sch_symbols[sch_i], answer |-> answer,
                                   raised |-> o.raised, sent |-> o.sent])
    /\ IF o.raised # "none"
       THEN sch_pc' = "raised" /\ sch_i' = sch_i
       ELSE sch_pc' = sch_pc /\ sch_i' = sch_i + 1
    /\ UNCHANGED <<sch_fn, sch_symbols, sch_toggles, sch_enabled>>
    /\ SchedFrame

CallCheckSignals == StartJob("check_signals")

CheckSignalsSymbol ==
    /\ sch_fn = "check_signals" /\ sch_pc = "loop" /\ sch_i <= Len(sch_symbols)
    /\ \E answer \in ReporterAnswers :
          JobSymbol(check_signals_body(answer, sch_toggles, sch_enabled), answer)

CallPeriodicReport == StartJob("periodic_report")

PeriodicReportSymbol ==
    /\ sch_fn = "periodic_report" /\ sch_pc = "loop" /\ sch_i <= Len(sch_symbols)
    /\ \E answer \in ReporterAnswers :
          JobSymbol(periodic_report_body(answer, sch_toggles, sch_enabled), answer)

JobReturn ==
    /\ sch_pc = "loop" /\ sch_i > Len(sch_symbols)
    /\ sch_pc' = "returned"
    /\ UNCHANGED <<sch_fn, sch_symbols, sch_toggles, sch_enabled, sch_i, sch_log>>
    /\ SchedFrame

-----------------------------------------------------------------------------
(* telegram_bot.TelegramBot: _request_with_retry, send_message                *)

\* defaults of _request_with_retry, the ones send_message runs with
DefaultRetries == 3
DefaultBaseDelay == 2

\* what requests.post(url, json=payload, timeout=10) does: it returns a response (status
\* 200, another status, or a body that is not JSON) or raises a requests exception
Responses == {"status_200", "status_other", "body_not_json"}
RetryableErrors == {"Timeout", "ConnectionError"}
OtherErrors == {"RequestException"}
PostOutcomes == Responses \cup RetryableErrors \cup OtherErrors

PostEvent(outcome) == [ev |-> "post", what |-> outcome, secs |-> 0]
SleepEvent(secs) == [ev |-> "sleep", what |-> "time.sleep", secs |-> secs]

NoPair == [r |-> "pending", err |-> "pending"]
Pair(r, err) == [r |-> r, err |-> err]

\* if attempt > retries: the variant that never takes the early return
AfterLastAttempt(attempt, retries) == attempt > retries

\* if attempt == retries
LastAttempt(attempt, retries) == attempt = retries

\* sleep_for = base_delay * (2 ** attempt)
sleep_for(base_delay, attempt) == base_delay * 2^attempt

\* the rest of send_message once _request_with_retry has returned (r, err)
send_result(pair) ==
    IF pair.err # "None" \/ pair.r = "None" THEN "None"
    ELSE IF pair.r = "body_not_json" THEN "raised"
    ELSE "json"

InitTgIdle ==
    /\ tg_fn = "none" /\ tg_pc = "returned" /\ tg_retries = 0 /\ tg_base_delay = 0
    /\ tg_attempt = 0 /\ tg_log = <<>> /\ tg_ret = NoPair /\ tg_sent = "pending"

InitTg ==
    /\ tg_fn = "none" /\ tg_pc = "idle" /\ tg_retries = 0 /\ tg_base_delay = 0
    /\ tg_attempt = 0 /\ tg_log = <<>> /\ tg_ret = NoPair /\ tg_sent = "pending"

TgFrame == UNCHANGED <<fetcherVars, mapVars, dfVars, emaVars, rsiVars, alignVars, histVars,
    scanVars, topVars, sigVars, lbVars, abVars, schedVars>>

\* _request_with_retry returns; a calling send_message finishes with it
RequestReturns(caller, log, pair) ==
    /\ tg_pc' = "returned" /\ tg_log' = log /\ tg_ret' = pair
    /\ tg_sent' = IF caller = "send_message" THEN send_result(pair) ELSE "pending"

\* while attempt <= retries: ... ; return None, None
WhileAttempt(caller, attempt, retries, log) ==
    /\ tg_attempt' = attempt
    /\ IF attempt <= retries
       THEN tg_pc' = "post" /\ tg_log' = log /\ UNCHANGED <<tg_ret, tg_sent>>
       ELSE RequestReturns(caller, log, Pair("None", "None"))

\* a direct call of _request_with_retry(method, payload, retries, base_delay)
CallRequestWithRetry(retries, base_delay) ==
    /\ tg_pc = "idle"
    /\ tg_fn' = "_request_with_retry" /\ tg_retries' = retries /\ tg_base_delay' = base_delay
    /\ WhileAttempt("_request_with_retry", 0, retries, <<>>)
    /\ TgFrame

\* send_message(text): the dry-run return, or _request_with_retry with its defaults
CallSendMessage(dry_run) ==
    /\ tg_pc = "idle"
    /\ tg_fn' = "send_message" /\ tg_retries' = DefaultRetries
    /\ tg_base_delay' = DefaultBaseDelay
    /\ IF dry_run
       THEN /\ tg_pc' = "returned" /\ tg_sent' = "dry_run"
            /\ UNCHANGED <<tg_attempt, tg_log, tg_ret>>
       ELSE WhileAttempt("send_message", 0, DefaultRetries, <<>>)
    /\ TgFrame

\* one pass of the while body, requests.post ending as `outcome`
Post(outcome) ==
    /\ tg_pc = "post"
    /\ LET posted == Append(tg_log, PostEvent(outcome))
       IN  IF outcome \in Responses
           THEN RequestReturns(tg_fn, posted, Pair(outcome, "None")) /\ UNCHANGED tg_attempt
           ELSE IF outcome \in RetryableErrors
           THEN IF LastAttempt(tg_attempt, tg_retries)
                THEN RequestReturns(tg_fn, posted, Pair("None", outcome))
                     /\ UNCHANGED tg_attempt
                ELSE WhileAttempt(tg_fn, tg_attempt + 1, tg_retries,
                         Append(posted, SleepEvent(sleep_for(tg_base_delay, tg_attempt))))
           ELSE RequestReturns(tg_fn, posted, Pair("None", outcome)) /\ UNCHANGED tg_attempt
    /\ UNCHANGED <<tg_fn, tg_retries, tg_base_delay>>
    /\ TgFrame

-----------------------------------------------------------------------------
(* Specifications *)

InitFetcherIdle ==
    /\ mirror_urls = 0
    /\ last_source = "None" /\ source_before = "None"
    /\ pc = "idle" /\ fn = "none" /\ symbol = DefaultArgs
    /\ mi = 0 /\ exc = NoExc /\ attempts = <<>> /\ ret = Running
    /\ start_ms = 0 /\ cursor = 0 /\ all_rows = <<>> /\ end_ms = 0 /\ limit = 0
    /\ requests = <<>> /\ pages = <<>>

\* the fetcher: any sequence of calls on one BinanceFetcher
Init == InitFetcher /\ InitMapIdle /\ InitDfIdle /\ InitEmaIdle /\ InitRsiIdle /\
    InitAlignIdle /\ InitHistIdle /\ InitScanIdle /\ InitTopIdle /\ InitSigIdle /\
    InitLbIdle /\ InitAbIdle /\ InitSchedIdle /\ InitTgIdle

NextFetcher ==
    \/ CallGetPrice
    \/ \E o \in PriceClientOutcomes : PricePrimary(o)
    \/ \E o \in MirrorOutcomes : PriceMirror(o)
    \/ PriceExhausted
    \/ \E s \in FetchSymbols : CallGetKlines(s)
    \/ \E o \in ClientOutcomes : KlinesPrimary(o)
    \/ \E o \in KlinesMirrorOutcomes : KlinesMirror(o)
    \/ KlinesMirrorsExhausted
    \/ \E o \in YfOutcomes : KlinesYf(o)
    \/ CallFetchTicker
    \/ \E o \in ClientOutcomes : TickerPrimary(o)
    \/ \E o \in MirrorOutcomes : TickerMirror(o)
    \/ TickerExhausted
    \/ \E st \in 0..MaxTime, en \in 0..MaxTime, l \in 1..MaxLimit :
            CallGetKlinesBetween(st, en, l)
    \/ BetweenPage
    \/ BetweenPageRaises

Next == NextFetcher

Spec == Init /\ [][Next]_vars

\* _map_symbol_to_yf applied to a symbol
InitMapSpec == InitFetcherIdle /\ InitMap /\ InitDfIdle /\ InitEmaIdle /\ InitRsiIdle /\
    InitAlignIdle /\ InitHistIdle /\ InitScanIdle /\ InitTopIdle /\ InitSigIdle /\
    InitLbIdle /\ InitAbIdle /\ InitSchedIdle /\ InitTgIdle
NextMap == MapSymbol
SpecMap == InitMapSpec /\ [][NextMap]_vars

\* to_dataframe applied to a list of rows
InitDfSpec == InitFetcherIdle /\ InitMapIdle /\ InitDf /\ InitEmaIdle /\ InitRsiIdle /\
    InitAlignIdle /\ InitHistIdle /\ InitScanIdle /\ InitTopIdle /\ InitSigIdle /\
    InitLbIdle /\ InitAbIdle /\ InitSchedIdle /\ InitTgIdle
NextDf == ToDataframe
SpecDf == InitDfSpec /\ [][NextDf]_vars

\* ema applied to a series
InitEmaSpec == InitFetcherIdle /\ InitMapIdle /\ InitDfIdle /\ InitEma /\ InitRsiIdle /\
    InitAlignIdle /\ InitHistIdle /\ InitScanIdle /\ InitTopIdle /\ InitSigIdle /\
    InitLbIdle /\ InitAbIdle /\ InitSchedIdle /\ InitTgIdle
NextEma == ComputeEma
SpecEma == InitEmaSpec /\ [][NextEma]_vars

\* rsi applied to a series
InitRsiSpec == InitFetcherIdle /\ InitMapIdle /\ InitDfIdle /\ InitEmaIdle /\ InitRsi /\
    InitAlignIdle /\ InitHistIdle /\ InitScanIdle /\ InitTopIdle /\ InitSigIdle /\
    InitLbIdle /\ InitAbIdle /\ InitSchedIdle /\ InitTgIdle
NextRsi == ComputeRsi
SpecRsi == InitRsiSpec /\ [][NextRsi]_vars

\* the weekly AB of one symbol, aligned to daily bars (historical mode) and as the
\* live scan computes it
InitAlignSpec == InitFetcherIdle /\ InitMapIdle /\ InitDfIdle /\ InitEmaIdle /\ InitRsiIdle /\
    InitAlign /\ InitHistIdle /\ InitScanIdle /\ InitTopIdle /\ InitSigIdle /\ InitLbIdle /\
    InitAbIdle /\ InitSchedIdle /\ InitTgIdle
NextAlign == AlignWeekly \/ ComputeWeeklyAb
SpecAlign == InitAlignSpec /\ [][NextAlign]_vars

\* find_signals_for_symbol applied to the daily and weekly tables of one symbol
InitHistSpec == InitFetcherIdle /\ InitMapIdle /\ InitDfIdle /\ InitEmaIdle /\ InitRsiIdle /\
    InitAlignIdle /\ InitHist /\ InitScanIdle /\ InitTopIdle /\ InitSigIdle /\ InitLbIdle /\
    InitAbIdle /\ InitSchedIdle /\ InitTgIdle
NextHist == FindSignalsForSymbol
SpecHist == InitHistSpec /\ [][NextHist]_vars

\* one run of the live scan or of the historical scan over the selected symbols
InitScanSpec == InitFetcherIdle /\ InitMapIdle /\ InitDfIdle /\ InitEmaIdle /\ InitRsiIdle /\
    InitAlignIdle /\ InitHistIdle /\ InitScan /\ InitTopIdle /\ InitSigIdle /\ InitLbIdle /\
    InitAbIdle /\ InitSchedIdle /\ InitTgIdle
NextScan ==
    \/ CallScan \/ ScanSymbol \/ ScanReturn
    \/ CallScanHistory \/ HistorySymbol \/ HistoryReturn
SpecScan == InitScanSpec /\ [][NextScan]_vars

\* list_top_usdt_symbols applied to a ticker snapshot
InitTopSpec == InitFetcherIdle /\ InitMapIdle /\ InitDfIdle /\ InitEmaIdle /\ InitRsiIdle /\
    InitAlignIdle /\ InitHistIdle /\ InitScanIdle /\ InitTop /\ InitSigIdle /\ InitLbIdle /\
    InitAbIdle /\ InitSchedIdle /\ InitTgIdle
NextTop == ListTop \/ ListTopHistory
SpecTop == InitTopSpec /\ [][NextTop]_vars

\* compute_indicators followed by generate_signals on one table
InitSigSpec == InitFetcherIdle /\ InitMapIdle /\ InitDfIdle /\ InitEmaIdle /\ InitRsiIdle /\
    InitAlignIdle /\ InitHistIdle /\ InitScanIdle /\ InitTopIdle /\ InitSig /\ InitLbIdle /\
    InitAbIdle /\ InitSchedIdle /\ InitTgIdle
NextSig == ComputeIndicators \/ GenerateSignals
SpecSig == InitSigSpec /\ [][NextSig]_vars

\* the historical scan of one symbol over `days` daily bars
InitLbSpec == InitFetcherIdle /\ InitMapIdle /\ InitDfIdle /\ InitEmaIdle /\ InitRsiIdle /\
    InitAlignIdle /\ InitHistIdle /\ InitScanIdle /\ InitTopIdle /\ InitSigIdle /\ InitLb /\
    InitAbIdle /\ InitSchedIdle /\ InitTgIdle
NextLb == FindSignalsOverLookback
SpecLookback == InitLbSpec /\ [][NextLb]_vars

\* atr and compute_ab applied to one table
InitAbSpec == InitFetcherIdle /\ InitMapIdle /\ InitDfIdle /\ InitEmaIdle /\ InitRsiIdle /\
    InitAlignIdle /\ InitHistIdle /\ InitScanIdle /\ InitTopIdle /\ InitSigIdle /\
    InitLbIdle /\ InitAb /\ InitSchedIdle /\ InitTgIdle
NextAb == ComputeAtr \/ ComputeAb
SpecAb == InitAbSpec /\ [][NextAb]_vars

\* one run of a scheduled job of MarketReporter
InitSchedSpec == InitFetcherIdle /\ InitMapIdle /\ InitDfIdle /\ InitEmaIdle /\ InitRsiIdle /\
    InitAlignIdle /\ InitHistIdle /\ InitScanIdle /\ InitTopIdle /\ InitSigIdle /\
    InitLbIdle /\ InitAbIdle /\ InitSched /\ InitTgIdle
NextSched ==
    \/ CallCheckSignals \/ CheckSignalsSymbol
    \/ CallPeriodicReport \/ PeriodicReportSymbol
    \/ JobReturn
SpecSched == InitSchedSpec /\ [][NextSched]_vars

\* get_klines_between alone.  The loop, once entered, keeps running (one thread,
\* nothing else to schedule): weak fairness of its step.  A step of the loop is enabled
\* exactly when InLoop holds and every step taken from such a state is a step of the
\* loop, so WF_vars(BetweenPage \/ BetweenPageRaises) is written out as
\* []<>~InLoop \/ []<><<InLoop>>_vars, which needs no search through the pages
InLoop == pc = "between_page"

NextBetween ==
    \/ \E st \in 0..MaxTime, en \in 0..MaxTime, l \in 1..MaxLimit :
            CallGetKlinesBetween(st, en, l)
    \/ BetweenPage
    \/ BetweenPageRaises
SpecBetween ==
    Init /\ [][NextBetween]_vars /\ ([]<>(~InLoop) \/ []<><<InLoop>>_vars)

\* one call of TelegramBot.send_message or _request_with_retry; every POST ends within
\* its timeout and every sleep is finite, so a pending attempt is eventually made
InitTgSpec == InitFetcherIdle /\ InitMapIdle /\ InitDfIdle /\ InitEmaIdle /\ InitRsiIdle /\
    InitAlignIdle /\ InitHistIdle /\ InitScanIdle /\ InitTopIdle /\ InitSigIdle /\
    InitLbIdle /\ InitAbIdle /\ InitSchedIdle /\ InitTg
PostAttempt == \E outcome \in PostOutcomes : Post(outcome)
NextTg ==
    \/ \E retries \in (0 - 1)..MaxRetries, base_delay \in 1..MaxBaseDelay :
          CallRequestWithRetry(retries, base_delay)
    \/ \E dry_run \in BOOLEAN : CallSendMessage(dry_run)
    \/ PostAttempt
SpecTelegram == InitTgSpec /\ [][NextTg]_vars /\ WF_vars(PostAttempt)

-----------------------------------------------------------------------------
(* Properties of the fail-over chain                                         *)

FailoverFns == {"get_price", "get_klines", "fetch_ticker_24hr"}

\* position of a stage in the chain: client, mirrors in list order, yfinance
Rank(a) ==
    IF a.stage = "client" THEN 0
    ELSE IF a.stage = "mirror" THEN a.idx
    ELSE mirror_urls + 1

YieldsData(a) == a.out = "ok"

NoLaterStageYields == \A k \in 2..Len(attempts) : ~YieldsData(attempts[k])

SourceName(stage) ==
    IF stage = "client" THEN "binance_client"
    ELSE IF stage = "mirror" THEN "binance_http"
    ELSE "yfinance"

IsFailoverScenario ==
    /\ Len(attempts) >= 3
    /\ attempts[1] = Att("client", 0, "raise")
    /\ attempts[2] = Att("mirror", 1, "non200")
    /\ attempts[3] = Att("mirror", 2, "ok")

\* C1: in get_price, get_klines and fetch_ticker_24hr the stages are attempted in the
\* order client, mirrors in list order, yfinance (get_klines only), each at most once;
\* a mirror that raises or answers non-200 is followed by the next mirror; nothing is
\* attempted after the first stage that yields data, and that stage's data is what is
\* returned; primary raises, mirror 1 non-200, mirror 2 valid: mirror 2's data is
\* returned, last_source is 'binance_http', yfinance is not invoked.
C1_FixedOrderFirstSuccess ==
    fn \in FailoverFns =>
        /\ attempts # <<>> => attempts[1].stage = "client"
        /\ \A k \in 1..(Len(attempts) - 1) : Rank(attempts[k]) < Rank(attempts[k + 1])
        /\ \A k \in 1..Len(attempts) :
              /\ attempts[k].stage = "mirror" => attempts[k].idx \in 1..mirror_urls
              /\ attempts[k].stage = "yfinance" => fn = "get_klines"
        /\ \A k \in 1..Len(attempts) :
              ( /\ \/ attempts[k].stage = "mirror" /\ attempts[k].out \in {"raise", "non200"}
                   \/ attempts[k].stage = "client" /\ attempts[k].out = "raise"
                /\ Rank(attempts[k]) < mirror_urls )
              => IF k < Len(attempts)
                 THEN attempts[k + 1].stage = "mirror"
                      /\ attempts[k + 1].idx = Rank(attempts[k]) + 1
                 ELSE pc # "idle"
        /\ \A k \in 1..(Len(attempts) - 1) : ~YieldsData(attempts[k])
        /\ (pc = "idle" /\ ret.kind = "returned" /\ ret.val # None) =>
              /\ YieldsData(attempts[Len(attempts)])
              /\ ret.val = Data(attempts[Len(attempts)].stage, attempts[Len(attempts)].idx)
        /\ (attempts # <<>> /\ YieldsData(attempts[Len(attempts)])) =>
              /\ pc = "idle"
              /\ ret = Returned(Data(attempts[Len(attempts)].stage, attempts[Len(attempts)].idx))
        /\ IsFailoverScenario =>
              /\ Len(attempts) = 3
              /\ pc = "idle"
              /\ ret = Returned(Data("mirror", 2))
              /\ last_source = "binance_http"
              /\ \A k \in 1..Len(attempts) : attempts[k].stage # "yfinance"

C1_Witness ==
    /\ fn = "get_klines" /\ pc = "idle"
    /\ last_source = "binance_http"
    /\ attempts = <<Att("client", 0, "raise"), Att("mirror", 1, "non200"), Att("mirror", 2, "ok")>>

\* C2: when the primary stage fails with exception E and no later stage yields data,
\* get_klines and get_price raise exactly E and return no value.
C2_RaisesPrimaryException ==
    ( /\ pc = "idle" /\ fn \in {"get_price", "get_klines"}
      /\ attempts # <<>> /\ attempts[1].out \in {"raise", "bad"}
      /\ NoLaterStageYields )
    => ( /\ ret.kind = "raised"
         /\ ret.exc = Exc("client", 0)
         /\ ret.val = None )

C2_Witness ==
    /\ pc = "idle" /\ fn = "get_klines"
    /\ ret.kind = "raised"
    /\ Len(attempts) = 4
    /\ attempts[3] = Att("mirror", 2, "raise")
    /\ attempts[4] = Att("yfinance", 0, "raise")

\* C3: whenever the most recent call (get_price, get_klines, get_klines_between or
\* fetch_ticker_24hr) returned data, last_source names the stage that supplied it.
C3_LastSourceNamesServingStage ==
    (pc = "idle" /\ ret.kind = "returned" /\ ret.val # None)
    => last_source = SourceName(ret.val.stage)

TickerTotalFailure ==
    /\ pc = "idle" /\ fn = "fetch_ticker_24hr"
    /\ attempts # <<>> /\ attempts[1].out = "raise"
    /\ NoLaterStageYields

-----------------------------------------------------------------------------
(* Properties of get_klines_between                                          *)

LastClose(page) == page[Len(page)].close_time

\* a page after which the loop asks for another one
AsksFurther(page) ==
    /\ page # <<>>
    /\ Len(page) >= limit
    /\ LastClose(page) < end_ms

\* C5: get_klines_between requests the first page with startTime = start_ms, each later
\* one with startTime = close time of the previous page's last row + 1, all with
\* endTime = end_ms and the same limit; it requests nothing after a page that is empty,
\* shorter than limit, or whose last close time is >= end_ms; it returns exactly the
\* concatenation of the pages received, in request order.
C5_PaginationAndConcatenation ==
    fn = "get_klines_between" =>
        /\ requests # <<>> => requests[1].startTime = start_ms
        /\ \A k \in 2..Len(requests) :
              /\ k - 1 <= Len(pages)
              /\ requests[k].startTime = LastClose(pages[k - 1]) + 1
        /\ \A k \in 1..Len(requests) :
              requests[k].endTime = end_ms /\ requests[k].limit = limit
        /\ \A k \in 1..Len(pages) :
              (k < Len(requests) \/ pc = "between_page") <=> AsksFurther(pages[k])
        /\ Len(pages) <= Len(requests)
        /\ (pc = "idle" /\ ret.kind = "returned") =>
              /\ Len(pages) = Len(requests)
              /\ ret.val.rows = Concat(pages)

C5_Witness ==
    /\ fn = "get_klines_between" /\ pc = "idle" /\ ret.kind = "returned"
    /\ Len(pages) >= 2
    /\ Len(ret.val.rows) >= 3

\* C6: if the source raises while get_klines_between fetches a page (first or later),
\* the call raises that exception, returns none of the rows of earlier pages, and
\* attempts neither a mirror nor yfinance.
C6_PageFailureIsAtomic ==
    ( /\ pc = "idle" /\ fn = "get_klines_between"
      /\ attempts # <<>> /\ attempts[Len(attempts)].out = "raise" )
    => ( /\ ret.kind = "raised"
         /\ ret.exc = Exc("client", Len(requests))
         /\ ret.val = None
         /\ \A k \in 1..Len(attempts) : attempts[k].stage = "client"
         /\ Len(attempts) = Len(requests) )

C6_Witness ==
    /\ pc = "idle" /\ fn = "get_klines_between"
    /\ ret.kind = "raised"
    /\ Len(requests) >= 2
    /\ all_rows # <<>>

-----------------------------------------------------------------------------
(* Properties of _map_symbol_to_yf                                           *)

\* sym = base + suffix, for some base
SplitsAs(sym, suffix) ==
    { b \in { SubSeq(sym, 1, k) : k \in 0..Len(sym) } : sym = b \o suffix }

IsPlainSpotUSDT(sym) ==
    \E b \in SplitsAs(sym, USDT) :
        /\ SplitsAs(b, <<"U", "P">>) = {}
        /\ SplitsAs(b, <<"D", "O", "W", "N">>) = {}
        /\ SplitsAs(b, <<"3", "L">>) = {}
        /\ SplitsAs(b, <<"3", "S">>) = {}

\* C7: _map_symbol_to_yf returns BASE-USD exactly when the symbol is BASE + 'USDT' and
\* BASE ends with none of 'UP', 'DOWN', '3L', '3S'; otherwise it returns None.
C7_MapsOnlyPlainSpotPairs ==
    yf_out # NotCalled =>
        IF IsPlainSpotUSDT(yf_in)
        THEN \E b \in SplitsAs(yf_in, USDT) : yf_out = b \o <<"-", "U", "S", "D">>
        ELSE yf_out = NotMappable

\* a plain pair whose base holds a leveraged pattern that is not at its end
C7_Witness ==
    /\ yf_in = <<"U", "P", "B", "U", "S", "D", "T">>
    /\ yf_out = <<"U", "P", "B", "-", "U", "S", "D">>

-----------------------------------------------------------------------------
(* Properties of to_dataframe                                                *)

StrictlyIncreasing(idx) == \A i \in 1..(Len(idx) - 1) : idx[i].utc_ms < idx[i + 1].utc_ms

Occurrences(seq, x) == Cardinality({ i \in 1..Len(seq) : seq[i] = x })

\* the rows of the table are the input rows, each as often as it was given
SameRows(input, table) ==
    /\ Len(table.rows) = Len(input)
    /\ \A r \in RawRows : Occurrences(table.rows, FrameRow(r)) = Occurrences(input, r)
    /\ \A i \in 1..Len(table.rows) : table.index[i] = ToDatetime(table.rows[i].open_time.utc_ms)

DistinctOpenTimes(input) ==
    \A i, j \in 1..Len(input) : i # j => input[i].open_time # input[j].open_time

\* C8 (as claimed): for any non-empty row list, also one that repeats an open time, the
\* index is strictly increasing and the rows are the input rows ordered by open time.
C8_IndexStrictlyIncreasing ==
    (df # NoTable /\ raw # <<>>) =>
        (StrictlyIncreasing(df.index) /\ SameRows(raw, df))

\* C8 (amended): for any non-empty row list the rows of the table are the input rows
\* in non-decreasing order of open time; the index is strictly increasing (free of
\* duplicates) exactly when the input open times are pairwise distinct.
C8_IndexSortedRowsKept ==
    (df # NoTable /\ raw # <<>>) =>
        /\ NonDecreasing(df.index)
        /\ SameRows(raw, df)
        /\ StrictlyIncreasing(df.index) <=> DistinctOpenTimes(raw)

C8_Witness ==
    /\ df # NoTable
    /\ Len(raw) = 3
    /\ raw[1].open_time > raw[2].open_time
    /\ raw[2].open_time = raw[3].open_time
    /\ raw[2] # raw[3]

Schema(t) == [columns |-> t.columns, index_name |-> t.index_name]

\* C9: the table for an empty row list has zero rows and the same schema (column
\* names, open time as the index) as the table for a non-empty row list.
C9_EmptyTableSameSchema ==
    (df # NoTable /\ raw = <<>>) =>
        /\ df.rows = <<>>
        /\ \A r \in RawRows : \A t \in to_dataframe(<<r>>) : Schema(t) = Schema(df)

-----------------------------------------------------------------------------
(* Properties of ema                                                         *)

\* C10: ema(s, p) has the length of s, starts with s[0], and continues with
\* ema[i] = alpha * s[i] + (1 - alpha) * ema[i-1], alpha = 2 / (p + 1); so ema(s, 1) = s.
C10_EmaRecurrence ==
    ema_out # <<>> =>
        /\ Len(ema_out) = Len(series)
        /\ ema_out[1] = <<series[1], 1>>
        /\ \A i \in 2..Len(series) :
              /\ ema_out[i][2] > 0
              \* (p + 1) * ema[i] = 2 * s[i] + (p - 1) * ema[i-1], denominators cleared
              /\ (period + 1) * ema_out[i][1] * ema_out[i - 1][2]
                 = ema_out[i][2] * (2 * series[i] * ema_out[i - 1][2]
                                    + (period - 1) * ema_out[i - 1][1])
        /\ period = 1 => \A i \in 1..Len(series) : ema_out[i] = <<series[i], 1>>

C10_Witness ==
    /\ ema_out # <<>>
    /\ period = 2
    /\ Len(series) = 3
    /\ series[1] # series[2] /\ series[2] # series[3]
    /\ ema_out[3][2] # 1

-----------------------------------------------------------------------------
(* Properties of rsi                                                          *)

\* C11: for a series of non-negative finite values and a period p >= 1, rsi(series, p)
\* is undefined (NaN) at each of the first p positions, and every defined entry of the
\* result lies in [0, 100].
C11_RsiWarmupAndRange ==
    rsi_out # <<>> =>
        /\ \A i \in 1..Len(rsi_out) : i <= rsi_period => IsNaN(rsi_out[i])
        /\ \A i \in 1..Len(rsi_out) :
              ~IsNaN(rsi_out[i]) => FLe(RInt(0), rsi_out[i]) /\ FLe(rsi_out[i], RInt(100))

-----------------------------------------------------------------------------
(* Properties of the weekly-to-daily alignment                                *)

\* the later candles of wdf all open after daily timestamp t
LaterCandlesOpenAfter(t) == \A j \in (w_known + 1)..Len(wdf) : wdf[j].open_time > t

BothAligned == ab_w_daily.kind = "series" /\ ab_w_daily_ext.kind = "series"

\* C12: no look-ahead in the aligner: the aligned AB_W value at a daily timestamp T
\* (prepare_weekly_ab, then map_weekly_to_daily) is the same from a weekly table W and
\* from W extended with any number of weekly candles that open after T.
C12_NoLookAhead ==
    BothAligned =>
        \A k \in 1..Len(daily_index) :
            LaterCandlesOpenAfter(daily_index[k])
            => ab_w_daily.values[k] = ab_w_daily_ext.values[k]

\* a defined value at a daily bar that is followed by later weekly candles which change
\* the aligned value of a later daily bar
C12_Witness ==
    /\ BothAligned
    /\ w_known < Len(wdf)
    /\ \E k \in 1..Len(daily_index) :
          /\ LaterCandlesOpenAfter(daily_index[k])
          /\ ~IsNaN(ab_w_daily.values[k])
    /\ \E k \in 1..Len(daily_index) : ab_w_daily.values[k] # ab_w_daily_ext.values[k]

\* the candles of wdf that have closed when the latest one is still open
Closed(table) == SubSeq(table, 1, Len(table) - 1)

\* number of weekly candles that have opened at daily timestamp t
OpenedAt(t) == Cardinality({j \in 1..Len(wdf) : wdf[j].open_time <= t})

\* the weekly AB of the last candle that has closed at daily timestamp t
ClosedWeekAb(t) ==
    IF OpenedAt(t) <= 1 THEN NaN
    ELSE compute_ab(SubSeq(wdf, 1, OpenedAt(t) - 1), weekly_len, bb_mult)[OpenedAt(t) - 1]

\* historical mode: the aligned value at a daily bar is the AB of the last closed week
C13_HistoricalShifted ==
    (ab_w_daily_ext.kind = "series" /\ wdf # <<>>) =>
        \A k \in 1..Len(daily_index) :
            ab_w_daily_ext.values[k] = ClosedWeekAb(daily_index[k])

\* live mode: the last candle of the fetched table is the week still open; the value is
\* the one the closed candles give
C13_LiveShifted ==
    (live_ab # NotComputed /\ wdf # <<>>) =>
        live_ab = compute_weekly_ab(Closed(wdf), weekly_len, bb_mult)

\* C13: in both scan modes the AB_weekly value compared with the threshold at a daily
\* bar is derived only from weekly candles that have closed at that daily timestamp: it
\* never incorporates the latest, still-open weekly candle, i.e. it is the weekly AB
\* shifted forward by one weekly period (historical: find_signals_for_symbol; live:
\* scan and check_signals through compute_weekly_ab).
C13_OnlyClosedWeeklyBars == C13_HistoricalShifted /\ C13_LiveShifted

\* the most recent defined entry of the shifted weekly series at or before t
MostRecentDefined(s, t) ==
    LET defined == {j \in 1..Len(s.index) : s.index[j] <= t /\ ~IsNaN(s.values[j])}
    IN  IF defined = {} THEN NaN
        ELSE s.values[CHOOSE j \in defined : \A i \in defined : i <= j]

\* C20: map_weekly_to_daily gives every daily timestamp T the most recent defined
\* shifted weekly value at or before T and leaves T undefined only when there is none;
\* an undefined entry in the middle of the shifted weekly series does not make later
\* daily timestamps undefined when an earlier defined weekly value exists.
C20_FillsWithMostRecentDefined ==
    ab_w_daily_ext.kind = "series" =>
        \A k \in 1..Len(daily_index) :
            ab_w_daily_ext.values[k] =
                MostRecentDefined(prepare_weekly_ab(wdf, weekly_len, bb_mult), daily_index[k])

-----------------------------------------------------------------------------
(* Properties of the historical evaluation of one symbol                      *)

Volumes == Column(daily_df, "volume")

\* the daily volumes with the volume of bar t replaced by x
WithVolume(t, x) == [Volumes EXCEPT ![t] = RInt(x)]

\* C14: in historical mode the volume moving average attributed to daily bar T is the
\* mean of the vol_ma_len volumes of the bars immediately preceding T; it does not
\* depend on bar T's own volume (replacing it by any other value, an extreme outlier
\* included, leaves vol_ma at T unchanged), and it is undefined at each of the first
\* vol_ma_len bars of the evaluated table.
C14_VolMaExcludesOwnBar ==
    hist_vol_ma # <<>> =>
        \A t \in 1..Len(daily_df) :
            /\ t <= vol_ma_len => IsNaN(hist_vol_ma[t])
            /\ t > vol_ma_len =>
                  hist_vol_ma[t] = FDiv(FSum(Volumes, t - vol_ma_len, t - 1), RInt(vol_ma_len))
            /\ \A x \in (0..MaxVolume) \cup {1000} :
                  VolMaBefore(WithVolume(t, x), vol_ma_len)[t] = hist_vol_ma[t]

\* a bar whose volume exceeds the multiple of the average of the bars before it, the
\* average being below the bar's own volume
C14_Witness ==
    /\ hits.kind = "returned"
    /\ \E t \in 1..Len(daily_df) :
          /\ t > vol_ma_len /\ vol_ma_len > 1
          /\ ~IsNaN(hist_vol_ma[t])
          /\ FLt(hist_vol_ma[t], Volumes[t])
          /\ \E r \in 1..Len(hits.rows) : hits.rows[r].date = daily_df[t].open_time

\* C16 (historical mode): whenever a value the condition needs is undefined at a bar
\* (AB_weekly in its warm-up or before the first shifted weekly value, volume moving
\* average without enough bars, an empty table) the bar yields no match record and the
\* evaluation raises no exception; for a symbol with no qualifying bar the result is an
\* empty table with the columns symbol, date, ab_w, volume, vol_ma.
C16_UndefinedYieldsNoMatch ==
    hits # NotReturned =>
        /\ hits.kind = "returned"
        /\ \A t \in 1..Len(hist_ab_w) :
              (IsNaN(hist_ab_w[t]) \/ IsNaN(hist_vol_ma[t])) =>
                  \A r \in 1..Len(hits.rows) : hits.rows[r].date # daily_df[t].open_time
        /\ hits.rows = <<>> => hits.columns = HitColumns

-----------------------------------------------------------------------------
(* Properties of the scans over the symbol list                               *)

\* positions in matches of the records of the k-th symbol
RecordsOf(k) == {r \in 1..Len(matches) : matches[r].symbol = symbols[k]}

PositionOf(sym) == CHOOSE k \in 1..Len(symbols) : symbols[k] = sym

LiveVolumes(answer) == Column(answer.daily, "volume")

LatestVolume(answer) == LiveVolumes(answer)[Len(answer.daily)]

\* the mean of the last vol_ma_len daily volumes, the latest bar included
MeanOfLast(answer) ==
    FDiv(FSum(LiveVolumes(answer), Len(answer.daily) - scan_args.ma_len + 1, Len(answer.daily)),
         RInt(scan_args.ma_len))

LiveAb(answer) == compute_weekly_ab(answer.weekly, scan_args.w_len, bb_mult)

\* AB_weekly, latest volume and moving average are all defined: the weekly AB series has
\* a defined entry and daily_volume_stats reports its statistics, which it does for a
\* daily table of at least vol_ma_len + 1 bars
LiveDefined(answer) ==
    /\ answer.fail = "none"
    /\ ~IsNaN(LiveAb(answer))
    /\ Len(answer.daily) >= scan_args.ma_len + 1

LiveQualifies(answer) ==
    /\ LiveDefined(answer)
    /\ AbBelow(LiveAb(answer), RInt(AbwLt))
    /\ FLt(FMul(RInt(scan_args.mult), MeanOfLast(answer)), LatestVolume(answer))

\* threshold 1.0, multiplier 10, volume 57 = 12 times its 20-bar average 4.75:
\* AB_weekly 0.8 gives one record, AB_weekly 1.5 gives none (AB carried by its square)
LiveExample ==
    /\ Len(scan_match(BTCUSDT, Squared(Rat(4, 5)), RInt(57), Rat(19, 4), RInt(1), RInt(10))) = 1
    /\ scan_match(BTCUSDT, Squared(Rat(3, 2)), RInt(57), Rat(19, 4), RInt(1), RInt(10)) = <<>>

OwnRecords(k) ==
    ScanBody(symbols[k], scan_log[k].answer, AbwLt, scan_args.ma_len, scan_args.mult,
             scan_args.w_len, bb_mult).records

\* the hit rows the k-th symbol of scan_history produced (none if it failed)
OwnHits(k) == IF scan_log[k].ret.kind = "returned" THEN Range(scan_log[k].ret.rows) ELSE {}

Failed(k) ==
    IF scan_fn = "scan" THEN scan_log[k].raised ELSE scan_log[k].ret.kind # "returned"

\* C18: in scan and scan_history, once the symbol list has been obtained, an exception
\* raised while processing one symbol is caught and the symbol skipped: the loop still
\* processes every remaining symbol in order, the call returns normally, and the
\* returned match records are exactly those the non-failing symbols produce on their
\* own, records accumulated before the failure included.
C18_FailingSymbolSkipped ==
    /\ scan_fn # "none" =>
          /\ Len(scan_log) = sym_i - 1
          /\ \A k \in 1..Len(scan_log) : scan_log[k].symbol = symbols[k]
          /\ scan_pc = "done" =>
                /\ Len(scan_log) = Len(symbols)
                /\ scan_ret.kind = "returned"
    /\ scan_fn = "scan" =>
          /\ matches = Concat([k \in 1..Len(scan_log) |->
                                  IF Failed(k) THEN <<>> ELSE OwnRecords(k)])
          /\ scan_pc = "done" => scan_ret.rows = matches
    /\ scan_fn = "scan_history" =>
          /\ Range(ConcatHits(all_hits)) = UNION { OwnHits(k) : k \in 1..Len(scan_log) }
          /\ scan_pc = "done" =>
                /\ Range(scan_ret.rows) = UNION { OwnHits(k) : k \in 1..Len(scan_log) }
                /\ Len(scan_ret.rows) = Cardinality(Range(scan_ret.rows))

\* a symbol that produced a record, then a failing symbol, then the call returned
C18_Witness ==
    /\ scan_pc = "done" /\ Len(symbols) = 2
    /\ ~Failed(1) /\ Failed(2)
    /\ scan_ret.rows # <<>>

-----------------------------------------------------------------------------
(* Properties of the symbol selection                                         *)

\* positions of the snapshot entries that are eligible
Eligible == {i \in 1..Len(tickers) : Kept(tickers[i].symbol)}

\* entry j is ranked before entry i: higher quote volume, or equal and earlier
Before(j, i) ==
    \/ QuoteVolume(tickers[j]) > QuoteVolume(tickers[i])
    \/ QuoteVolume(tickers[j]) = QuoteVolume(tickers[i]) /\ j < i

RankOf(i) == Cardinality({j \in Eligible : Before(j, i)}) + 1

Min(a, b) == IF a < b THEN a ELSE b

\* the returned names are the first top_n entries of the eligible symbols ranked by quote
\* volume descending, equal volumes in snapshot order
RankedCut ==
    /\ Len(top_out.names) = Min(top_n, Cardinality(Eligible))
    /\ \A i \in Eligible :
          RankOf(i) <= Len(top_out.names) => top_out.names[RankOf(i)] = tickers[i].symbol
    /\ \A p \in 1..Len(top_out.names) : Kept(top_out.names[p])
    /\ \A i \in Eligible, j \in Eligible :
          (RankOf(i) > Len(top_out.names) /\ RankOf(j) <= Len(top_out.names))
          => QuoteVolume(tickers[j]) >= QuoteVolume(tickers[i])

\* C17 as stated: list_top_usdt_symbols(top_n) returns, for any ticker snapshot, exactly
\* the first top_n entries (all of them when fewer exist) of the list of snapshot symbols
\* that end with 'USDT' and contain none of 'UP', 'DOWN', '3L', '3S', ordered by quote
\* volume descending, symbols of equal quote volume in their snapshot order; no excluded
\* symbol appears and no higher-volume eligible symbol is omitted for a lower one.
C17_ReturnsRankedCutForAnySnapshot ==
    top_fn # "none" => (top_out.kind = "returned" /\ RankedCut)

\* C17 amended: the above holds for every snapshot given to the historical scan's
\* list_top_usdt_symbols and for every non-empty snapshot given to the live scan's; on an
\* empty snapshot the live scan's raises RuntimeError and returns nothing.
C17_TopByQuoteVolumeStable ==
    top_fn # "none" =>
        IF top_fn = "scan" /\ tickers = <<>>
        THEN top_out = TopRaised("RuntimeError")
        ELSE top_out.kind = "returned" /\ RankedCut

\* two eligible entries of equal quote volume, an excluded entry of higher volume between
\* them, and a cut that keeps only the first of the two
C17_Witness ==
    /\ top_out.kind = "returned"
    /\ Len(tickers) = 3 /\ top_n = 1
    /\ Eligible = {1, 3}
    /\ tickers[1].symbol # tickers[3].symbol
    /\ QuoteVolume(tickers[1]) = QuoteVolume(tickers[3])
    /\ QuoteVolume(tickers[2]) > QuoteVolume(tickers[1])
    /\ top_out.names = <<tickers[1].symbol>>

-----------------------------------------------------------------------------
(* Properties of the signal generation on short histories                     *)

\* C19: no indicator or signal function raises because the input has too little history:
\* for a table of any length, including 0 and 1, generate_signals applied to the result of
\* compute_indicators returns normally (with no signal where the lookback is not met).
C19_NeverRaisesOnShortHistory ==
    (sig_pc = "done" /\ sig_out # SignalsNotCalled) => sig_out.kind = "returned"

-----------------------------------------------------------------------------
(* Properties of the historical lookback window                               *)

\* positions, in the evaluated table, of the most recent lb_days daily bars
RecentBars == {i \in 1..Len(lb_df) : i > Len(lb_df) - lb_days}

\* C21: in historical mode, when the source returns the full days + 40 daily bars
\* requested, every one of the most recent `days` bars is evaluated with a defined volume
\* moving average, for any vol_ma_len up to the 40-bar buffer.
C21_RecentBarsHaveVolMa ==
    (lb_hits # NotReturned /\ Len(lb_answer) = lb_days + FetchExtra /\ lb_ma_len <= FetchExtra)
    => /\ Cardinality(RecentBars) = lb_days
       /\ \A i \in RecentBars : ~IsNaN(lb_vol_ma[i])

-----------------------------------------------------------------------------
(* Properties of atr and compute_ab                                           *)

Max(a, b) == IF a > b THEN a ELSE b

\* the true range of bar j of ab_table, in integers
TrueRangeAt(j) ==
    LET b == ab_table[j]
    IN  IF j = 1 THEN b.high - b.low
        ELSE LET pc_ == ab_table[j - 1].close
             IN  Max(b.high - b.low, Max(Abs(b.high - pc_), Abs(b.low - pc_)))

RECURSIVE SumTrueRange(_, _)
SumTrueRange(lo, hi) == IF lo > hi THEN 0 ELSE TrueRangeAt(lo) + SumTrueRange(lo + 1, hi)

RECURSIVE SumClose(_, _, _)
SumClose(lo, hi, power) ==
    IF lo > hi THEN 0
    ELSE (IF power = 2 THEN ab_table[lo].close * ab_table[lo].close ELSE ab_table[lo].close)
         + SumClose(lo + 1, hi, power)

\* L^2 times the population variance of the L closes that end at bar i
ScaledVariance(i, L) ==
    L * SumClose(i - L + 1, i, 2) - SumClose(i - L + 1, i, 1) * SumClose(i - L + 1, i, 1)

\* the square of mult * std / atr at bar i, the quotient being the floating-point one
\* (x / 0 is an infinity, 0 / 0 is NaN)
ExpectedAbSquared(i, L, mult) ==
    LET tr == SumTrueRange(i - L + 1, i)
        v == ScaledVariance(i, L)
    IN  IF tr # 0 THEN Rat(mult * mult * v, tr * tr)
        ELSE IF v > 0 THEN PosInf ELSE NaN

\* C22: for every table and length L >= 1, atr(table, L) and compute_ab(table, L, mult)
\* are undefined at each of the first L-1 positions; from position L-1 on, atr is the
\* simple mean of the last L true ranges (true range = max(high-low, |high-prev_close|,
\* |low-prev_close|), high-low at the first bar) and compute_ab is mult times the
\* population standard deviation of the last L closes divided by that atr.
C22_AtrAndAbWarmupAndValue ==
    /\ "atr" \in ab_done =>
          /\ Len(atr_out) = Len(ab_table)
          /\ \A i \in 1..Len(ab_table) :
                IF i < ab_len THEN IsNaN(atr_out[i])
                ELSE atr_out[i] = Rat(SumTrueRange(i - ab_len + 1, i), ab_len)
    /\ "compute_ab" \in ab_done =>
          /\ Len(ab_out) = Len(ab_table)
          /\ \A i \in 1..Len(ab_table) :
                IF i < ab_len THEN IsNaN(ab_out[i])
                ELSE ab_out[i] = ExpectedAbSquared(i, ab_len, ab_mult)

\* both computed on a table with a warm-up position, a bar whose true range comes from
\* the previous close, and a finite non-zero AB
C22_Witness ==
    /\ ab_done = {"atr", "compute_ab"}
    /\ ab_len = 2 /\ Len(ab_table) = 3
    /\ IsNaN(atr_out[1]) /\ IsNaN(ab_out[1])
    /\ TrueRangeAt(3) > ab_table[3].high - ab_table[3].low
    /\ Finite(ab_out[3]) /\ ab_out[3] # RInt(0)

-----------------------------------------------------------------------------
(* Properties of the scheduled jobs                                           *)

JobOver == sch_fn # "none" /\ sch_pc \in {"returned", "raised"}

\* C23: in check_signals and periodic_report a failure while processing one configured
\* symbol (its kline fetch exhausting every source, or an empty table) is caught and
\* skipped: every symbol that follows it in the configured list is still processed in
\* the same run.
C23_FailingSymbolDoesNotStopTheRun ==
    JobOver => /\ sch_pc = "returned"
               /\ \A i \in 1..Len(sch_symbols) :
                     \E k \in 1..Len(sch_log) : sch_log[k].symbol = sch_symbols[i]

-----------------------------------------------------------------------------
(* Properties of the observability field                                      *)

\* the most recent call has ended without delivering data: get_price or get_klines
\* raised, or fetch_ticker_24hr returned None
EndedWithoutData ==
    /\ pc = "idle"
    /\ \/ fn \in {"get_price", "get_klines"} /\ ret.kind = "raised"
       \/ fn = "fetch_ticker_24hr" /\ ret = Returned(None)

\* C24: a fetcher call that does not deliver data leaves last_source untouched: whenever
\* get_price or get_klines raises, or fetch_ticker_24hr returns None, last_source has the
\* same value after the call as before it, also when a stage answered but its payload
\* could not be used.
C24_FailedCallKeepsLastSource == EndedWithoutData => last_source = source_before

-----------------------------------------------------------------------------
(* Termination of get_klines_between                                          *)

\* the cursor of each page request is larger than that of the request before it, and
\* there are at most end_ms - start_ms + 1 page requests
CursorAdvances ==
    (fn = "get_klines_between" /\ start_ms <= end_ms) =>
        /\ \A k \in 1..(Len(requests) - 1) : requests[k].startTime < requests[k + 1].startTime
        /\ Len(requests) <= end_ms - start_ms + 1

\* C25: get_klines_between always terminates: for start_ms <= end_ms, limit >= 1 and a
\* source whose pages are finite with close time >= open time >= the requested startTime,
\* the cursor strictly increases from one page request to the next and the call ends
\* after finitely many page requests.
C25_BetweenTerminates ==
    /\ []CursorAdvances
    /\ (pc = "between_page" /\ start_ms <= end_ms) ~> (pc = "idle")

\* a call that needed as many page requests as the distance from start_ms to end_ms allows
C25_Witness ==
    /\ fn = "get_klines_between" /\ pc = "idle" /\ ret.kind = "returned"
    /\ start_ms < end_ms
    /\ Len(requests) = end_ms - start_ms + 1
    /\ Len(requests) >= 3

-----------------------------------------------------------------------------
(* The live volume condition when the multiplier reaches the window length    *)

\* the mean of the vol_ma_len daily volumes before the latest bar
MeanBeforeLatest(answer) ==
    FDiv(FSum(LiveVolumes(answer), Len(answer.daily) - scan_args.ma_len,
              Len(answer.daily) - 1),
         RInt(scan_args.ma_len))

\* with vol_ma_len = 2 and vol_mult = 1 the volumes 1, 1, 3 satisfy the condition
\* (3 > 1 * mean(1, 3)) and give a record when AB_weekly is below the threshold
SatisfiableBelowWindow ==
    LET vols == daily_volume_stats(DailyOf(<<1, 1, 3>>), 2)
    IN  Len(scan_match(BTCUSDT, RInt(0), vols.latest, vols.ma, RInt(AbwLt), RInt(1))) = 1

-----------------------------------------------------------------------------
(* The retry loop of TelegramBot._request_with_retry                          *)

IsPost(e) == e.ev = "post"

\* the POST attempts made so far, in order
Posts == SelectSeq(tg_log, IsPost)

\* the request ran (send_message did not take its dry-run return)
Requested == tg_fn # "none" /\ tg_sent # "dry_run"

\* attempts and waits alternate: the k-th attempt (from 0) is followed by a wait only
\* if it ended in a timeout or connection error, and the wait is base_delay * 2^k
RetriesOnlyAfterBackoff ==
    \A i \in 1..Len(tg_log) :
        IF i % 2 = 1 THEN tg_log[i].ev = "post"
        ELSE /\ tg_log[i].ev = "sleep"
             /\ tg_log[i - 1].what \in {"Timeout", "ConnectionError"}
             /\ tg_log[i].secs = tg_base_delay * 2^((i \div 2) - 1)

\* what the call returned, read off its last attempt
ReturnsByLastAttempt ==
    (Requested /\ tg_pc = "returned") =>
        IF tg_log = <<>> THEN tg_retries < 0 /\ tg_ret = Pair("None", "None")
        ELSE LET last == tg_log[Len(tg_log)]
             IN  /\ last.ev = "post"
                 /\ last.what \in {"status_200", "status_other", "body_not_json"}
                        => tg_ret = Pair(last.what, "None")
                 /\ last.what \in {"Timeout", "ConnectionError"}
                        => Len(Posts) = tg_retries + 1 /\ tg_ret = Pair("None", last.what)
                 /\ last.what = "RequestException" => tg_ret = Pair("None", last.what)

RetryLoopBounded ==
    /\ Len(Posts) <= tg_retries + 1
    /\ tg_pc = "post" => Len(Posts) = tg_attempt /\ tg_attempt <= tg_retries
    /\ RetriesOnlyAfterBackoff
    /\ ReturnsByLastAttempt
    /\ (Requested /\ tg_fn = "send_message" /\ tg_pc = "returned" /\ tg_ret.r = "None")
           => tg_sent = "None"

\* C27: _request_with_retry always terminates after at most retries + 1 POST attempts: it
\* returns (response, None) at the first attempt that obtains a response; it retries only
\* after a timeout or connection error, waiting base_delay * 2^k after the k-th failed
\* attempt; after the (retries + 1)-th such error it returns (None, that error) without
\* waiting; on any other request error it returns (None, that error) at once; send_message
\* then returns None and raises nothing when no response was obtained.
C27_RetryTerminatesWithBackoff ==
    /\ []RetryLoopBounded
    /\ (tg_pc = "post") ~> (tg_pc = "returned")

\* send_message gave up after retries + 1 timeouts or connection errors, having waited
\* base_delay, 2 * base_delay and 4 * base_delay in between
C27_Witness ==
    /\ tg_fn = "send_message" /\ tg_pc = "returned"
    /\ Len(Posts) = tg_retries + 1 /\ Len(Posts) >= 4
    /\ tg_log[Len(tg_log)].what = "Timeout"
    /\ tg_log[6].ev = "sleep" /\ tg_log[6].secs = 4 * tg_base_delay
    /\ tg_ret = Pair("None", "Timeout") /\ tg_sent = "None"

====
